---- MODULE Spec2Model ----
(***************************************************************************)
(* WodSniper: the booking orchestration core of app/scheduler/__init__.py. *)
(*                                                                         *)
(* Spec      one run of run_scheduled_bookings_for_box: load and group the *)
(*           gym's bookings, one worker per user (_process_user_bookings), *)
(*           the per-booking retry loop, the collection of the futures and *)
(*           the hand-over to the notifier.                                *)
(* SpecRetry the retry loop of one booking, with the calls, the delays and *)
(*           the outcome of every attempt recorded.                        *)
(* SpecDate  the target-date computation of the retry state machine.       *)
(* SpecWeek, SpecDetect  the two interval jobs of the window detector.     *)
(* SpecPool  the executor of a run.   SpecRefresh  the refresh pass.       *)
(* SpecClient, SpecBook, SpecFind  the WodBusterClient and its answers.    *)
(* SpecWeb, SpecGym  the booking routes and the connection routes.         *)
(* SpecLegacy  _process_single_booking.   SpecToggle  a run next to the    *)
(*           toggle route.   SpecOverlap  the refresh pass against the     *)
(*           clock of the fan-out.                                         *)
(***************************************************************************)
EXTENDS Integers, Sequences, FiniteSets, TLC

\* ------------------------------------------------------------------ bounds
NumUsers == 2
NumBookings == 2
MaxToday == 14
RunDay == 7
MaxOpenDay == 0
MaxOpenMinute == 10
MaxSpread == 6
MaxLate == 2
MaxTextLen == 3
NumRequests == 2
NumPoolUsers == 52
MaxClasses == 2
NumRefreshUsers == 20
MaxLoginSeconds == 30

\* ------------------------------------------------------- program constants
MAX_RETRY_ATTEMPTS == 3
RETRY_DELAY == 1
MAX_PARALLEL_USERS == 50
\* "(current_minute + 5)", "(current_minute + 10)"
BOOKING_LOOKAHEAD == 5
REFRESH_LOOKAHEAD == 10
MinutesPerHour == 60
HoursPerDay == 24
DaysPerWeek == 7
SecondsPerMinute == 60
\* "time.sleep(2)  # Avoid rate limiting"
REFRESH_PAUSE == 2

Users == 1..NumUsers
BookingIds == 1..NumBookings

\* the gym the run is for, and any other gym
ThisBox == "box"
OtherBox == "other_box"

\* a NULL column / Python None
None == "None"
\* session token sets: the one stored before the run, the one a login yields
StoredTokens == "stored_tokens"
FreshTokens == "fresh_tokens"

VARIABLES
    \* ---- database
    users,            \* users[u]: box_id, wodbuster_cookie
    bookings,         \* bookings[b]: the Booking row
    booking_logs,     \* booking_logs[b]: the BookingLog rows of booking b
    \* ---- run_scheduled_bookings_for_box
    today,            \* day ordinal of the run (datetime.now())
    opc,              \* position of the orchestrator
    bookings_by_user, \* the grouped booking data loaded by the run
    collected,        \* futures already taken from as_completed
    results_by_user,  \* the aggregate: user_id -> result list
    notified,         \* what _send_booking_notifications received
    \* ---- _process_user_bookings, one worker per user
    pc,               \* position of the worker
    session,          \* how the worker's client session was established
    calls,            \* the client and store calls of the worker, by first use
    results,          \* the worker's result list
    idx,              \* bookings of bookings_by_user[u] already processed
    attempt,          \* attempts made on the booking in progress
    \* ---- what the client of the observed retry loop was asked (SpecRetry)
    trace,            \* the exception each attempt ended with ("none": booked)
    book_calls,       \* book_class calls
    delays,           \* time.sleep(RETRY_DELAY) calls
    obj,              \* the Booking object: as loaded, and as the loop has left it
    \* ---- target-date calculation on its own (SpecDate)
    calc,
    \* ---- the window detector
    boxes,            \* boxes[g]: booking_open_day, booking_open_hour, booking_open_minute
    scan,             \* per job and gym, the ticks of a week at which it triggers
    clock,            \* datetime.now(), as a minute of the week
    job_queue,        \* the gyms the running check_booking_windows has yet to finish
    runs,             \* runs[g]: the run_scheduled_bookings_for_box call for gym g
    \* ---- the build
    session_scope,    \* what db.session is scoped to: the thread or the app context
    \* ---- the executor of a run, by task counts
    pool,             \* users of the run, tasks taken and finished, times each user ran
    refresh,          \* refresh_sessions_for_box: the users selected, and what was done for each
    summaries,        \* the send_booking_summary calls of _send_booking_notifications, by user
    client,           \* a WodBusterClient: _logged_in, its cookie jar, and its last call
    web,              \* the bookings table as the booking routes see it, and their requests
    gym,              \* per gym: whether its Box row exists and whether auto-detection has overwritten its schedule
    published,        \* what the upstream published for the target date at each attempt of the observed loop
    timeline          \* the refresh pass of a gym against the clock: users selected and visited, seconds since its trigger, and the fan-out

dbVars == <<users, bookings, booking_logs>>
orchVars == <<today, opc, bookings_by_user, collected, results_by_user, notified>>
workerVars == <<pc, session, calls, results, idx, attempt>>
observerVars == <<trace, book_calls, delays, obj>>
detectVars == <<boxes, scan, clock, job_queue, runs>>
vars == <<users, bookings, booking_logs, today, opc, bookings_by_user,
          collected, results_by_user, notified, pc, session, calls, results,
          idx, attempt, trace, book_calls, delays, obj, calc, boxes, scan,
          clock, job_queue, runs, session_scope, pool, refresh, summaries, client, web, gym, published, timeline>>

\* ------------------------------------------------------------ target date
\* datetime.weekday() of a proleptic Gregorian day ordinal (ordinal 1 is a
\* Monday, Monday is 0)
Weekday(ordinal) == (ordinal + 6) % 7

\* a calculation that would accept today: "if days_ahead < 0"
DaysAheadSameDay(day_of_week, now) ==
    LET days_ahead == day_of_week - Weekday(now)
    IN  IF days_ahead < 0 THEN days_ahead + 7 ELSE days_ahead

DaysAhead(day_of_week, now) ==
    LET days_ahead == day_of_week - Weekday(now)
    IN  IF days_ahead <= 0 THEN days_ahead + 7 ELSE days_ahead

TargetDate(day_of_week, now) == now + DaysAhead(day_of_week, now)

\* the day_of_week values of the bookings of the run
DayOfWeekOf(b) == (2 * b + 4) % 7

\* ------------------------------------------------------------------- Init
\* users of the gym with a stored session, users that never connected, and
\* members of another gym
UserProfiles ==
    { [box_id |-> ThisBox,  wodbuster_cookie |-> StoredTokens],
      [box_id |-> ThisBox,  wodbuster_cookie |-> None],
      [box_id |-> OtherBox, wodbuster_cookie |-> StoredTokens] }

\* a text with the "(attempt n)" / "(after n attempts)" annotation it carries,
\* 0 for none
Text(text, attempts) == [text |-> text, attempts |-> attempts]

\* last_attempt is the set of at most one day: empty while the column is NULL
NewBooking(u, b, active) ==
    [ user_id |-> u, day_of_week |-> DayOfWeekOf(b), is_active |-> active,
      status |-> "pending", last_attempt |-> {}, last_error |-> Text(None, 0),
      success_count |-> 0, fail_count |-> 0 ]

EmptySeqs(S) == [x \in S |-> <<>>]

Min(a, b) == IF a <= b THEN a ELSE b

WorkersIdle ==
    /\ pc = [u \in Users |-> "none"]
    /\ session = [u \in Users |-> "none"]
    /\ calls = EmptySeqs(Users)
    /\ results = EmptySeqs(Users)
    /\ idx = [u \in Users |-> 0]
    /\ attempt = [u \in Users |-> 0]

ObserverIdle ==
    /\ trace = <<>>
    /\ book_calls = 0
    /\ delays = 0
    /\ obj = [loaded |-> NewBooking(1, 1, FALSE), current |-> NewBooking(1, 1, FALSE)]

OrchIdle ==
    /\ opc = "start"
    /\ bookings_by_user = EmptySeqs(Users)
    /\ collected = {}
    /\ results_by_user = <<>>
    /\ notified = <<>>

CalcIdle == calc = [today |-> 0, day_of_week |-> 0, target |-> 0]

\* ---------------------------------------------------------- the gyms
Boxes == {ThisBox, OtherBox}

\* the column defaults of Box: Sunday 13:00
DefaultOpening ==
    [booking_open_day |-> DaysPerWeek - 1, booking_open_hour |-> 13,
     booking_open_minute |-> 0]

NotScanned ==
    [scanned |-> FALSE, booking |-> [g \in Boxes |-> {}], refresh |-> [g \in Boxes |-> {}]]

NoTick == -1

\* no run_scheduled_bookings_for_box call yet
NoRun ==
    [phase |-> "idle", triggered_at |-> NoTick, called_at |-> NoTick,
     target_time |-> NoTick, started_at |-> NoTick]

JobsIdle ==
    /\ clock = 0
    /\ job_queue = <<>>
    /\ runs = [g \in Boxes |-> NoRun]

DetectIdle ==
    /\ boxes = [g \in Boxes |-> DefaultOpening]
    /\ scan = NotScanned
    /\ JobsIdle

PoolUsers == 1..NumPoolUsers

\* no executor yet
NoPool ==
    [phase |-> "none", n |-> 0, taken |-> 0, finished |-> 0,
     processed |-> [u \in PoolUsers |-> 0]]

PoolIdle == pool = NoPool

\* no refresh pass: wodbuster_email and password are the users' stored
\* credentials (None for a NULL column or one that does not decrypt), before
\* the users' stored cookies when the pass began
NoRefresh ==
    [phase |-> "none",
     wodbuster_email |-> [u \in Users |-> None],
     wodbuster_password |-> [u \in Users |-> None],
     before |-> [u \in Users |-> None],
     selected |-> <<>>, events |-> <<>>]

RefreshIdle == refresh = NoRefresh

SummariesIdle == summaries = <<>>

\* the cookies a client can hold, and a cookie dict: None for an absent name
CookieNames == {"ASP.NET_SessionId", ".WBAuth"}
NoCookies == [n \in CookieNames |-> None]

\* no client call yet
NoCall == [op |-> "none"]

\* WodBusterClient(box_url): _logged_in = False, an empty jar, and FlareSolverr
\* when FLARESOLVERR_URL is set; error_msg is the ErrorMsg its upstream refuses
\* a booking with; verified tells whether _verify_login() has returned True in
\* a login or restore_session of this client
NewClient ==
    [flaresolverr |-> FALSE, error_msg |-> <<>>, logged_in |-> FALSE,
     verified |-> FALSE, cookies |-> NoCookies, last |-> NoCall]

ClientIdle == client = NewClient

\* no request to the booking routes yet
NoResponse == [op |-> "none", user |-> None, id |-> 0, status |-> 0]

NoWeb == [rows |-> {}, requests |-> <<>>, last |-> NoResponse]

WebIdle == web = NoWeb

\* no Box row yet
NoGym == [exists |-> FALSE, detected |-> FALSE]

GymIdle == gym = [g \in Boxes |-> NoGym]

\* no refresh pass
NoTimeline == [n |-> 0, visited |-> 0, elapsed |-> 0, fanout |-> {}]

\* db.session is a scoped_session: Flask-SQLAlchemy 3 scopes it to the app
\* context, Flask-SQLAlchemy 2 to the thread; the repository pins neither
SessionScopes == {"app_context", "thread"}

Init ==
    /\ users \in [Users -> UserProfiles]
    /\ \E owner \in [BookingIds -> Users], active \in [BookingIds -> BOOLEAN] :
          /\ \A b1, b2 \in BookingIds : b1 <= b2 => owner[b1] <= owner[b2]
          /\ bookings = [b \in BookingIds |-> NewBooking(owner[b], b, active[b])]
    /\ booking_logs = EmptySeqs(BookingIds)
    /\ today = RunDay
    /\ OrchIdle
    /\ WorkersIdle
    /\ ObserverIdle
    /\ CalcIdle
    /\ DetectIdle
    /\ session_scope \in SessionScopes
    /\ timeline = NoTimeline
    /\ published = <<>>
    /\ GymIdle
    /\ WebIdle
    /\ ClientIdle
    /\ SummariesIdle
    /\ RefreshIdle
    /\ PoolIdle

\* ------------------------------------------------ run_scheduled_bookings_for_box
\* a query that would not filter on the gym
LoadedBookingsOfAnyBox ==
    { b \in BookingIds :
        /\ bookings[b].is_active
        /\ users[bookings[b].user_id].wodbuster_cookie # None }

\* Booking.query.filter_by(is_active=True).join(User).filter(box_id, cookie)
LoadedBookings ==
    { b \in BookingIds :
        /\ bookings[b].is_active
        /\ users[bookings[b].user_id].box_id = ThisBox
        /\ users[bookings[b].user_id].wodbuster_cookie # None }

RECURSIVE SortedSeq(_)
SortedSeq(S) ==
    IF S = {} THEN <<>>
    ELSE LET m == CHOOSE x \in S : \A y \in S : x <= y
         IN  <<m>> \o SortedSeq(S \ {m})

GroupByUser(loaded) ==
    [u \in Users |-> SortedSeq({b \in loaded : bookings[b].user_id = u})]

UserIds == {u \in Users : Len(bookings_by_user[u]) > 0}

\* an executor with one thread per user
MaxWorkersPerUser(n) == n

\* num_workers = min(len(user_ids), MAX_PARALLEL_USERS)
MaxWorkers(n) == Min(n, MAX_PARALLEL_USERS)

NumWorkers == MaxWorkers(Cardinality(UserIds))

Running == {u \in Users : pc[u] \in {"relogin", "bookings"}}

\* the query finds nothing: the run returns at once
LoadNothing ==
    /\ opc = "start"
    /\ LoadedBookings = {}
    /\ opc' = "returned"
    /\ UNCHANGED <<dbVars, today, bookings_by_user, collected, results_by_user,
                   notified, workerVars, observerVars, calc, detectVars, session_scope, pool, refresh, summaries, client, web, gym, published, timeline>>

\* load, group by user, wait for the opening instant, submit one task per user
LoadAndSubmit ==
    /\ opc = "start"
    /\ LoadedBookings # {}
    /\ bookings_by_user' = GroupByUser(LoadedBookings)
    /\ pc' = [u \in Users |->
                IF \E b \in LoadedBookings : bookings[b].user_id = u
                THEN "queued" ELSE "none"]
    /\ opc' = "fanout"
    /\ UNCHANGED <<dbVars, today, collected, results_by_user, notified,
                   session, calls, results, idx, attempt, observerVars, calc, detectVars, session_scope, pool, refresh, summaries, client, web, gym, published, timeline>>

\* ---------------------------------------------------- _process_user_bookings
Append1(seq, e) == IF \E i \in 1..Len(seq) : seq[i] = e THEN seq ELSE Append(seq, e)

\* the result record of a booking that was failed without being attempted
SetupFailure(u, b, msg) ==
    [ user_id |-> u, booking |-> b, status |-> "failed",
      message |-> Text(msg, 0), target_date |-> None ]

\* a setup failure that would be reported for the first booking only
FailFirst(u, msg) ==
    [i \in 1..Min(1, Len(bookings_by_user[u])) |->
        SetupFailure(u, bookings_by_user[u][i], msg)]

FailAll(u, msg) ==
    [i \in 1..Len(bookings_by_user[u]) |-> SetupFailure(u, bookings_by_user[u][i], msg)]

\* a worker that would never try the stored cookies
NeverTruthy(cookies) == FALSE

\* "if cookies:"
Truthy(cookies) == cookies # None

\* the event of a restore_session call, with what it returned
RestoreEvent(ok) == IF ok THEN "restore_session=True" ELSE "restore_session=False"

\* a re-login whose cookies would not be stored
KeepWodbusterCookies(u, cookies) == users

\* User.set_wodbuster_cookies followed by a commit
SetWodbusterCookies(u, cookies) == [users EXCEPT ![u].wodbuster_cookie = cookies]

\* a pool thread takes the task: the client is created and the stored cookies
\* are tried first; verified says whether the upstream accepts them
WorkerStart(u) ==
    /\ opc = "fanout"
    /\ pc[u] = "queued"
    /\ Cardinality(Running) < NumWorkers
    /\ \E verified \in BOOLEAN :
         LET cookies == users[u].wodbuster_cookie
             session_valid == Truthy(cookies) /\ verified
         IN  /\ Truthy(cookies) \/ verified
             /\ calls' = [calls EXCEPT ![u] =
                            IF Truthy(cookies)
                            THEN Append1(@, RestoreEvent(session_valid)) ELSE @]
             /\ session' = [session EXCEPT ![u] =
                            IF session_valid THEN "restored" ELSE "expired"]
             /\ pc' = [pc EXCEPT ![u] =
                            IF session_valid THEN "bookings" ELSE "relogin"]
    /\ UNCHANGED <<dbVars, orchVars, results, idx, attempt, observerVars, calc, detectVars, session_scope, pool, refresh, summaries, client, web, gym, published, timeline>>

\* "if not session_valid": re-login with the stored credentials, when
\* get_wodbuster_password() and wodbuster_email give any
Relogin(u) ==
    /\ pc[u] = "relogin"
    /\ \E wodbuster_password \in {None, "password"},
          login_ok \in BOOLEAN, commit_ok \in BOOLEAN :
         IF wodbuster_password # None
         THEN /\ calls' = [calls EXCEPT ![u] =
                    IF login_ok /\ commit_ok
                    THEN Append1(Append1(@, "login"), "set_wodbuster_cookies")
                    ELSE Append1(@, "login")]
              /\ IF login_ok
                 THEN IF commit_ok
                      THEN /\ users' = SetWodbusterCookies(u, FreshTokens)
                           /\ session' = [session EXCEPT ![u] = "relogged"]
                           /\ pc' = [pc EXCEPT ![u] = "bookings"]
                           /\ UNCHANGED results
                      ELSE \* db.session.commit() raises: nothing here catches it
                           /\ session' = [session EXCEPT ![u] = "relogged"]
                           /\ pc' = [pc EXCEPT ![u] = "crashed"]
                           /\ UNCHANGED <<users, results>>
                 ELSE \* except LoginError
                      /\ commit_ok
                      /\ session' = [session EXCEPT ![u] = "login_failed"]
                      /\ results' = [results EXCEPT ![u] =
                            FailAll(u, "Session expired and re-login failed")]
                      /\ pc' = [pc EXCEPT ![u] = "done"]
                      /\ UNCHANGED users
         ELSE /\ login_ok /\ commit_ok
              /\ session' = [session EXCEPT ![u] = "no_credentials"]
              /\ results' = [results EXCEPT ![u] =
                    FailAll(u, "Session expired and no credentials stored")]
              /\ pc' = [pc EXCEPT ![u] = "done"]
              /\ UNCHANGED <<users, calls>>
    /\ UNCHANGED <<bookings, booking_logs, orchVars, idx, attempt, observerVars, calc, detectVars, session_scope, pool, refresh, summaries, client, web, gym, published, timeline>>

\* ------------------------------------- _process_single_booking_with_client
\* what client.find_class and client.book_class can hand to the retry loop
FindResults == {"cls", "None", "NoClassesAvailableError", "Exception"}
BookResults == {"True", "False", "ClassFullError", "RateLimitError", "BookingError"}
NotCalled == "not_called"

\* the exception the try body of one attempt ends with ("none": it booked)
Raised(f, k) ==
    CASE f = "None" -> "ClassNotFoundError"
      [] f = "cls" /\ k = "True" -> "none"
      [] f = "cls" /\ k = "False" -> "BookingError"
      [] f = "cls" /\ k \notin {"True", "False"} -> k
      [] OTHER -> f

\* str(e): the text of the exception, one text per exception type
StrOf(e) ==
    CASE e = "none" -> None
      [] e = "ClassNotFoundError" -> "Class not found"
      [] e = "ClassFullError" -> "Class is full"
      [] e = "RateLimitError" -> "penalizacion"
      [] e = "BookingError" -> "Booking failed"
      [] e = "NoClassesAvailableError" -> "No classes"
      [] e = "SessionExpiredError" -> "Session expired"
      [] OTHER -> "unexpected error"

\* a loop without the ClassFullError clause: "except Exception" would take it
HandlerWithoutClassFull(e) ==
    CASE e = "none" -> "success"
      [] e = "NoClassesAvailableError" -> "no_classes"
      [] e \in {"ClassNotFoundError", "BookingError", "RateLimitError"} -> "retry"
      [] OTHER -> "unexpected"

\* a loop without the NoClassesAvailableError clause
HandlerWithoutNoClasses(e) ==
    CASE e = "none" -> "success"
      [] e = "ClassFullError" -> "waiting"
      [] e \in {"ClassNotFoundError", "BookingError", "RateLimitError"} -> "retry"
      [] OTHER -> "unexpected"

\* the except clause that takes the exception
Handler(e) ==
    CASE e = "none" -> "success"
      [] e = "ClassFullError" -> "waiting"
      [] e = "NoClassesAvailableError" -> "no_classes"
      [] e \in {"ClassNotFoundError", "BookingError", "RateLimitError"} -> "retry"
      [] OTHER -> "unexpected"

\* the clauses that end in "break"
Breaks(e) == Handler(e) \in {"success", "waiting", "no_classes"}

\* a loop over range(1, MAX_RETRY_ATTEMPTS + 2)
ExhaustedLate(n) == n >= MAX_RETRY_ATTEMPTS + 1

\* range(1, MAX_RETRY_ATTEMPTS + 1) is exhausted after attempt n
Exhausted(n) == n >= MAX_RETRY_ATTEMPTS

LoopEnds(n, e) == Breaks(e) \/ Exhausted(n)

\* a loop that would sleep after every retried failure, the last included
SleepsAfterLast(n, e) == Handler(e) \in {"retry", "unexpected"}

\* "if attempt < MAX_RETRY_ATTEMPTS: time.sleep(RETRY_DELAY)"
Sleeps(n, e) == Handler(e) \in {"retry", "unexpected"} /\ n < MAX_RETRY_ATTEMPTS

\* a loop that would count every failed attempt
AfterAttemptCountingEach(row, n, e, text) ==
    CASE Handler(e) = "success" ->
            [row EXCEPT !.status = "success", !.success_count = @ + 1,
                        !.last_error = Text(None, 0)]
      [] Handler(e) = "waiting" ->
            [row EXCEPT !.status = "waiting", !.last_error = Text(text, 0)]
      [] OTHER ->
            [row EXCEPT !.status = "failed", !.fail_count = @ + 1,
                        !.last_error = Text(text, 0)]

\* a loop whose "except Exception" clause would only log
AfterAttemptLoggingUnexpected(row, n, e, text) ==
    CASE Handler(e) = "success" ->
            [row EXCEPT !.status = "success", !.success_count = @ + 1,
                        !.last_error = Text(None, 0)]
      [] Handler(e) = "waiting" ->
            [row EXCEPT !.status = "waiting", !.last_error = Text(text, 0)]
      [] Handler(e) = "no_classes" ->
            [row EXCEPT !.status = "failed", !.fail_count = @ + 1,
                        !.last_error = Text(text, 0)]
      [] Handler(e) = "unexpected" -> row
      [] OTHER ->
            IF n < MAX_RETRY_ATTEMPTS THEN row
            ELSE [row EXCEPT !.status = "failed", !.fail_count = @ + 1,
                             !.last_error = Text(text, 0)]

\* the Booking object as attempt n leaves it
AfterAttempt(row, n, e, text) ==
    CASE Handler(e) = "success" ->
            [row EXCEPT !.status = "success", !.success_count = @ + 1,
                        !.last_error = Text(None, 0)]
      [] Handler(e) = "waiting" ->
            [row EXCEPT !.status = "waiting", !.last_error = Text(text, 0)]
      [] Handler(e) = "no_classes" ->
            [row EXCEPT !.status = "failed", !.fail_count = @ + 1,
                        !.last_error = Text(text, 0)]
      [] OTHER ->
            IF n < MAX_RETRY_ATTEMPTS THEN row
            ELSE [row EXCEPT !.status = "failed", !.fail_count = @ + 1,
                             !.last_error = Text(text, 0)]

\* the local "message" after attempt n
MessageAfter(n, e, text) ==
    CASE Handler(e) = "success" ->
            Text("Booked", IF n > 1 THEN n ELSE 0)
      [] Handler(e) = "waiting" ->
            Text("Class is full - added to waitlist", 0)
      [] Handler(e) = "no_classes" ->
            Text("No classes available (holiday or closed)", 0)
      [] OTHER ->
            IF n < MAX_RETRY_ATTEMPTS THEN Text("", 0)
            ELSE Text(text, MAX_RETRY_ATTEMPTS)

\* an exception leaves _process_user_bookings: its locals, the result list
\* among them, are lost
Crash(u) ==
    /\ pc' = [pc EXCEPT ![u] = "crashed"]
    /\ results' = [results EXCEPT ![u] = <<>>]
    /\ idx' = [idx EXCEPT ![u] = 0]
    /\ attempt' = [attempt EXCEPT ![u] = 0]

\* a loop that would not advance through booking_data_list
CurrentBookingFirst(u) == bookings_by_user[u][1]

\* "for booking_data in booking_data_list": the booking the worker is at
CurrentBooking(u) == bookings_by_user[u][idx[u] + 1]

\* what "with app.app_context(): db.session.add(log); db.session.commit()"
\* writes of the Booking object: the object belongs to the session of the
\* worker's own app context, which is the committing session only when
\* db.session is scoped to the thread; the worker never commits that session
\* afterwards, and its teardown rolls it back
CommitRow(b, row) ==
    IF session_scope = "thread" THEN [bookings EXCEPT ![b] = row] ELSE bookings

\* leaving the inner app context removes the session of its scope; under the
\* thread scope that is the session the committed, hence expired, user and
\* booking objects belong to, and the return statement's user.id raises
\* DetachedInstanceError
DetachedAfterCommit == session_scope = "thread"

\* one iteration of the retry loop of the worker's next booking, find_class
\* answering f and book_class k; with the last iteration come the log row, the
\* commit and the result record, and after the user's last booking the return
AttemptStep(u, f, k, commit_ok) ==
    LET n == attempt[u] + 1
        b == CurrentBooking(u)
        e == Raised(f, k)
        text == StrOf(e)
        row == [AfterAttempt(bookings[b], n, e, text) EXCEPT !.last_attempt = {today}]
        target_date == TargetDate(bookings[b].day_of_week, today)
        message == MessageAfter(n, e, text)
    IN  /\ pc[u] = "bookings"
        /\ (f = "cls") <=> (k # NotCalled)
        /\ calls' = [calls EXCEPT ![u] = Append1(@, "find_class")]
        /\ IF ~LoopEnds(n, e)
           THEN /\ commit_ok
                /\ attempt' = [attempt EXCEPT ![u] = n]
                /\ UNCHANGED <<bookings, booking_logs, results, pc, idx>>
           ELSE IF commit_ok
           THEN /\ bookings' = CommitRow(b, row)
                /\ booking_logs' = [booking_logs EXCEPT ![b] = Append(@,
                       [ booking_id |-> b, status |-> row.status,
                         message |-> message, target_date |-> target_date ])]
                /\ IF DetachedAfterCommit
                   THEN Crash(u)
                   ELSE /\ results' = [results EXCEPT ![u] = Append(@,
                               [ user_id |-> u, booking |-> b, status |-> row.status,
                                 message |-> message, target_date |-> target_date ])]
                        /\ idx' = [idx EXCEPT ![u] = @ + 1]
                        /\ attempt' = [attempt EXCEPT ![u] = 0]
                        /\ pc' = [pc EXCEPT ![u] =
                               IF idx[u] + 1 = Len(bookings_by_user[u]) THEN "done" ELSE @]
           ELSE \* db.session.commit() raises out of the worker
                /\ Crash(u)
                /\ UNCHANGED <<bookings, booking_logs>>
        /\ UNCHANGED <<users, orchVars, session, calc, detectVars, session_scope, pool, refresh, summaries, client, web, gym, timeline>>

Attempt(u) ==
    /\ \E f \in FindResults, k \in BookResults \cup {NotCalled}, commit_ok \in BOOLEAN :
          AttemptStep(u, f, k, commit_ok)
    /\ UNCHANGED <<observerVars, published>>

\* ------------------------------------------- as_completed and the notifier
\* a collection that would let a worker's exception out of the loop: the
\* aggregate built so far is lost
CollectPropagates(u) ==
    /\ opc = "fanout"
    /\ pc[u] \in {"done", "crashed"}
    /\ u \notin collected
    /\ collected' = collected \cup {u}
    /\ results_by_user' =
          IF pc[u] = "crashed" THEN <<>>
          ELSE IF results[u] # <<>> THEN results_by_user @@ (u :> results[u])
          ELSE results_by_user
    /\ UNCHANGED <<dbVars, today, opc, bookings_by_user, notified, workerVars,
                   observerVars, calc, detectVars, session_scope, pool, refresh, summaries, client, web, gym, published, timeline>>

\* "for future in as_completed(futures)": a returned list is kept when it is
\* not empty, a raised exception is logged
Collect(u) ==
    /\ opc = "fanout"
    /\ pc[u] \in {"done", "crashed"}
    /\ u \notin collected
    /\ collected' = collected \cup {u}
    /\ results_by_user' =
          IF pc[u] = "done" /\ results[u] # <<>>
          THEN results_by_user @@ (u :> results[u])
          ELSE results_by_user
    /\ UNCHANGED <<dbVars, today, opc, bookings_by_user, notified, workerVars,
                   observerVars, calc, detectVars, session_scope, pool, refresh, summaries, client, web, gym, published, timeline>>

\* what User.query.get(user_id) gives the notifier: the user of the run, with
\* email_notifications off or on
UserLookups == {"off", "on"}

\* a notifier that would not look at the user's preference
NotifiesAll(lookup) == TRUE

\* "if user and user.email_notifications"
Notifies(lookup) == lookup = "on"

\* the executor has shut down: _send_booking_notifications(app, results_by_user),
\* which calls send_booking_summary(user, results) for the users it notifies
Notify ==
    /\ opc = "fanout"
    /\ collected = UserIds
    /\ notified' = results_by_user
    /\ \E lookup \in [DOMAIN results_by_user -> UserLookups] :
          summaries' = [u \in DOMAIN results_by_user |->
                           [lookup |-> lookup[u], sent |-> Notifies(lookup[u]),
                            results |-> IF Notifies(lookup[u]) THEN results_by_user[u]
                                        ELSE <<>>]]
    /\ opc' = "done"
    /\ UNCHANGED <<dbVars, today, bookings_by_user, collected, results_by_user,
                   workerVars, observerVars, calc, detectVars, session_scope, pool, refresh, client, web, gym, published, timeline>>

Next ==
    \/ LoadNothing
    \/ LoadAndSubmit
    \/ \E u \in Users : WorkerStart(u)
    \/ \E u \in Users : Relogin(u)
    \/ \E u \in Users : Attempt(u)
    \/ \E u \in Users : Collect(u)
    \/ Notify

Spec == Init /\ [][Next]_vars

\* --------------------------------------------------------------- SpecRetry
\* the retry loop of one booking of one worker whose session is established,
\* for bookings of every earlier outcome
PriorRows ==
    { [NewBooking(1, 1, TRUE) EXCEPT !.status = st, !.success_count = sc,
                                     !.fail_count = fc]
        : st \in {"pending", "success", "failed", "waiting"},
          sc \in 0..1, fc \in 0..1 }

InitRetry ==
    /\ users = [u \in Users |-> [box_id |-> ThisBox, wodbuster_cookie |-> StoredTokens]]
    /\ \E row \in PriorRows :
          /\ bookings = [b \in BookingIds |->
                           IF b = 1 THEN row ELSE NewBooking(1, b, FALSE)]
          /\ obj = [loaded |-> row, current |-> row]
    /\ booking_logs = EmptySeqs(BookingIds)
    /\ today = RunDay
    /\ opc = "fanout"
    /\ bookings_by_user = [u \in Users |-> IF u = 1 THEN <<1>> ELSE <<>>]
    /\ collected = {}
    /\ results_by_user = <<>>
    /\ notified = <<>>
    /\ pc = [u \in Users |-> IF u = 1 THEN "bookings" ELSE "none"]
    /\ session = [u \in Users |-> IF u = 1 THEN "restored" ELSE "none"]
    /\ calls = [u \in Users |-> IF u = 1 THEN <<RestoreEvent(TRUE)>> ELSE <<>>]
    /\ results = EmptySeqs(Users)
    /\ idx = [u \in Users |-> 0]
    /\ attempt = [u \in Users |-> 0]
    /\ trace = <<>>
    /\ book_calls = 0
    /\ delays = 0
    /\ CalcIdle
    /\ DetectIdle
    /\ session_scope \in SessionScopes
    /\ timeline = NoTimeline
    /\ published = <<>>
    /\ GymIdle
    /\ WebIdle
    /\ ClientIdle
    /\ SummariesIdle
    /\ RefreshIdle
    /\ PoolIdle

\* an attempt of the observed worker, with what the client was asked
ObservedAttempt ==
    \E f \in FindResults, k \in BookResults \cup {NotCalled}, commit_ok \in BOOLEAN :
       /\ AttemptStep(1, f, k, commit_ok)
       /\ trace' = Append(trace, Raised(f, k))
       /\ book_calls' = book_calls + (IF k # NotCalled THEN 1 ELSE 0)
       /\ delays' = delays + (IF Sleeps(attempt[1] + 1, Raised(f, k)) THEN 1 ELSE 0)
       /\ obj' = [obj EXCEPT !.current =
                    LET n == attempt[1] + 1
                        e == Raised(f, k)
                        o == AfterAttempt(@, n, e, StrOf(e))
                    IN  IF LoopEnds(n, e) THEN [o EXCEPT !.last_attempt = {today}] ELSE o]
       /\ UNCHANGED published

NextRetry == ObservedAttempt

SpecRetry == InitRetry /\ [][NextRetry]_vars

\* the worker's thread is scheduled until the loop is over
SpecRetryLive == SpecRetry /\ WF_vars(NextRetry)

\* ---------------------------------------------------------------- SpecDate
\* the target-date calculation for every weekday pair
InitDate ==
    /\ users = [u \in Users |-> [box_id |-> OtherBox, wodbuster_cookie |-> None]]
    /\ bookings = [b \in BookingIds |-> NewBooking(1, b, FALSE)]
    /\ booking_logs = EmptySeqs(BookingIds)
    /\ today = RunDay
    /\ OrchIdle
    /\ WorkersIdle
    /\ ObserverIdle
    /\ calc \in [today : 1..MaxToday, day_of_week : 0..6, target : {0}]
    /\ DetectIdle
    /\ session_scope = "app_context"
    /\ timeline = NoTimeline
    /\ published = <<>>
    /\ GymIdle
    /\ WebIdle
    /\ ClientIdle
    /\ SummariesIdle
    /\ RefreshIdle
    /\ PoolIdle

CalculateTargetDate ==
    /\ calc.target = 0
    /\ calc' = [calc EXCEPT !.target = TargetDate(calc.day_of_week, calc.today)]
    /\ UNCHANGED <<dbVars, orchVars, workerVars, observerVars, detectVars,
                   session_scope, pool, refresh, summaries, client, web, gym, published, timeline>>

NextDate == CalculateTargetDate

SpecDate == InitDate /\ [][NextDate]_vars

\* ---------------------------------------------------------------- SpecWeek
\* check_booking_windows and check_session_refresh, asked at every minute of
\* a week. A tick is a minute of the week, counted from Monday 00:00.
MinutesPerDay == HoursPerDay * MinutesPerHour
WeekTicks == 0..(DaysPerWeek * MinutesPerDay - 1)

\* now.weekday(), now.hour, now.minute
DayOf(t) == t \div MinutesPerDay
HourOf(t) == (t \div MinutesPerHour) % HoursPerDay
MinuteOf(t) == t % MinutesPerHour

\* a target minute without the wrap at the hour
TargetMinuteNoWrap(current_minute, lookahead) == current_minute + lookahead

TargetMinute(current_minute, lookahead) == (current_minute + lookahead) % MinutesPerHour

\* a target hour without the carry of the minutes
TargetHourNoCarry(current_hour, current_minute, lookahead) == current_hour

TargetHour(current_hour, current_minute, lookahead) ==
    current_hour + ((current_minute + lookahead) \div MinutesPerHour)

\* the Box.query.filter(...) of both jobs, empty after "if target_hour >= 24:
\* return"
BoxesAhead(t, lookahead) ==
    LET current_day == DayOf(t)
        target_minute == TargetMinute(MinuteOf(t), lookahead)
        target_hour == TargetHour(HourOf(t), MinuteOf(t), lookahead)
    IN  IF target_hour >= HoursPerDay THEN {}
        ELSE { g \in Boxes :
                 /\ boxes[g].booking_open_day = current_day
                 /\ boxes[g].booking_open_hour = target_hour
                 /\ boxes[g].booking_open_minute = target_minute }

\* check_booking_windows at tick t: the gyms run_scheduled_bookings_for_box is
\* called for
BoxesOpening(t) == BoxesAhead(t, BOOKING_LOOKAHEAD)

\* check_session_refresh at tick t: the gyms refresh_sessions_for_box is
\* called for
BoxesToRefresh(t) == BoxesAhead(t, REFRESH_LOOKAHEAD)

OpeningTimes ==
    [booking_open_day : 0..MaxOpenDay, booking_open_hour : 0..(HoursPerDay - 1),
     booking_open_minute : 0..MaxOpenMinute]

InitWeek ==
    /\ users = [u \in Users |-> [box_id |-> OtherBox, wodbuster_cookie |-> None]]
    /\ bookings = [b \in BookingIds |-> NewBooking(1, b, FALSE)]
    /\ booking_logs = EmptySeqs(BookingIds)
    /\ today = RunDay
    /\ OrchIdle
    /\ WorkersIdle
    /\ ObserverIdle
    /\ CalcIdle
    /\ \E opening \in OpeningTimes :
          boxes = [g \in Boxes |-> IF g = ThisBox THEN opening ELSE DefaultOpening]
    /\ scan = NotScanned
    /\ JobsIdle
    /\ session_scope = "app_context"
    /\ timeline = NoTimeline
    /\ published = <<>>
    /\ GymIdle
    /\ WebIdle
    /\ ClientIdle
    /\ SummariesIdle
    /\ RefreshIdle
    /\ PoolIdle

\* one interval job per minute, for a week
ScanWeek ==
    /\ ~scan.scanned
    /\ scan' = [ scanned |-> TRUE,
                 booking |-> [g \in Boxes |-> {t \in WeekTicks : g \in BoxesOpening(t)}],
                 refresh |-> [g \in Boxes |-> {t \in WeekTicks : g \in BoxesToRefresh(t)}] ]
    /\ UNCHANGED <<dbVars, orchVars, workerVars, observerVars, calc, boxes,
                   clock, job_queue, runs, session_scope, pool, refresh, summaries, client, web, gym, published, timeline>>

NextWeek == ScanWeek

SpecWeek == InitWeek /\ [][NextWeek]_vars

\* -------------------------------------------------------------- SpecDetect
\* The 'booking_window_check' interval job around the openings of two gyms:
\* every minute the scheduler starts check_booking_windows unless an instance
\* of the job is still running (add_job leaves max_instances at its default,
\* 1), and the job calls run_scheduled_bookings_for_box for one gym after the
\* other.
FirstOpening == 12 * MinutesPerHour + 58
OpenTicks == FirstOpening..(FirstOpening + MaxSpread)
FirstTick == FirstOpening - BOOKING_LOOKAHEAD - 1
LastTick == FirstOpening + MaxSpread + MaxLate

BoxAt(t) ==
    [booking_open_day |-> DayOf(t), booking_open_hour |-> HourOf(t),
     booking_open_minute |-> MinuteOf(t)]

\* now.replace(hour=box.booking_open_hour, minute=box.booking_open_minute,
\* second=0, microsecond=0)
TargetTime(now, g) ==
    DayOf(now) * MinutesPerDay
      + boxes[g].booking_open_hour * MinutesPerHour + boxes[g].booking_open_minute

\* a run that would not wait at all
WaitOverAtOnce(now, target_time) == TRUE

\* "while datetime.now() < target_time" has ended
WaitOver(now, target_time) == ~(now < target_time)

\* the orders in which a query may list the gyms of S
Orders(S) ==
    { q \in UNION {[1..n -> S] : n \in 0..Cardinality(S)} :
        /\ Len(q) = Cardinality(S)
        /\ \A i, j \in 1..Len(q) : i # j => q[i] # q[j] }

\* run_scheduled_bookings_for_box(app, box) is called at "now" and has found
\* bookings: it computes target_time and waits
Called(run, now, g) ==
    [run EXCEPT !.phase = "waiting", !.called_at = now,
                !.target_time = TargetTime(now, g)]

InitDetect ==
    /\ users = [u \in Users |-> [box_id |-> OtherBox, wodbuster_cookie |-> None]]
    /\ bookings = [b \in BookingIds |-> NewBooking(1, b, FALSE)]
    /\ booking_logs = EmptySeqs(BookingIds)
    /\ today = RunDay
    /\ OrchIdle
    /\ WorkersIdle
    /\ ObserverIdle
    /\ CalcIdle
    /\ boxes \in [Boxes -> {BoxAt(t) : t \in OpenTicks}]
    /\ scan = NotScanned
    /\ clock = FirstTick
    /\ job_queue = <<>>
    /\ runs = [g \in Boxes |-> NoRun]
    /\ session_scope = "app_context"
    /\ timeline = NoTimeline
    /\ published = <<>>
    /\ GymIdle
    /\ WebIdle
    /\ ClientIdle
    /\ SummariesIdle
    /\ RefreshIdle
    /\ PoolIdle

\* a minute passes and the interval job is due: it is skipped while an
\* instance is running; otherwise check_booking_windows looks for the gyms
\* opening in 5 minutes and calls the run of the first one. A run that finds
\* no active bookings returns at once.
Tick ==
    /\ clock < LastTick
    /\ \A g \in Boxes :
          runs[g].phase = "waiting" => ~WaitOver(clock, runs[g].target_time)
    /\ clock' = clock + 1
    /\ IF job_queue # <<>>
       THEN UNCHANGED <<job_queue, runs>>
       ELSE \E with_bookings \in SUBSET BoxesOpening(clock') :
            \E order \in Orders(with_bookings) :
               /\ job_queue' = order
               /\ runs' = [g \in Boxes |->
                     IF g \notin BoxesOpening(clock') THEN runs[g]
                     ELSE LET triggered == [runs[g] EXCEPT !.triggered_at = clock']
                          IN  IF g \notin with_bookings
                              THEN [triggered EXCEPT !.phase = "ended", !.called_at = clock']
                              ELSE IF g = order[1] THEN Called(triggered, clock', g)
                              ELSE [triggered EXCEPT !.phase = "queued"]]
    /\ UNCHANGED <<dbVars, orchVars, workerVars, observerVars, calc, boxes, scan,
                   session_scope, pool, refresh, summaries, client, web, gym, published, timeline>>

\* the wait of the running call is over: the executor is created and the
\* user tasks are submitted
FanoutStarts(g) ==
    /\ job_queue # <<>> /\ job_queue[1] = g
    /\ runs[g].phase = "waiting"
    /\ WaitOver(clock, runs[g].target_time)
    /\ runs' = [runs EXCEPT ![g].phase = "fanout", ![g].started_at = clock]
    /\ UNCHANGED <<dbVars, orchVars, workerVars, observerVars, calc, boxes, scan,
                   clock, job_queue, session_scope, pool, refresh, summaries, client, web, gym, published, timeline>>

\* the workers are done and the notifier has returned: the call returns, and
\* the "for box in boxes_opening" loop calls the run of the next gym
RunReturns(g) ==
    /\ job_queue # <<>> /\ job_queue[1] = g
    /\ runs[g].phase = "fanout"
    /\ job_queue' = Tail(job_queue)
    /\ runs' = [h \in Boxes |->
          IF h = g THEN [runs[g] EXCEPT !.phase = "ended"]
          ELSE IF Len(job_queue) > 1 /\ h = job_queue[2] THEN Called(runs[h], clock, h)
          ELSE runs[h]]
    /\ UNCHANGED <<dbVars, orchVars, workerVars, observerVars, calc, boxes, scan,
                   clock, session_scope, pool, refresh, summaries, client, web, gym, published, timeline>>

NextDetect ==
    \/ Tick
    \/ \E g \in Boxes : FanoutStarts(g)
    \/ \E g \in Boxes : RunReturns(g)

SpecDetect == InitDetect /\ [][NextDetect]_vars

\* ---------------------------------------------------------------- SpecPool
\* The executor of one run with up to NumPoolUsers users, by task counts: the
\* tasks are queued in the order of user_ids (user 1 first) and a free thread
\* takes the head of the queue; which running task returns next is open.
InitPool ==
    /\ users = [u \in Users |-> [box_id |-> OtherBox, wodbuster_cookie |-> None]]
    /\ bookings = [b \in BookingIds |-> NewBooking(1, b, FALSE)]
    /\ booking_logs = EmptySeqs(BookingIds)
    /\ today = RunDay
    /\ OrchIdle
    /\ WorkersIdle
    /\ ObserverIdle
    /\ CalcIdle
    /\ DetectIdle
    /\ session_scope = "app_context"
    /\ timeline = NoTimeline
    /\ published = <<>>
    /\ GymIdle
    /\ WebIdle
    /\ ClientIdle
    /\ SummariesIdle
    /\ RefreshIdle
    /\ \E n \in PoolUsers : pool = [NoPool EXCEPT !.phase = "loaded", !.n = n]

PoolRunning == pool.taken - pool.finished

\* "with ThreadPoolExecutor(max_workers=num_workers)": one task per user id
PoolSubmit ==
    /\ pool.phase = "loaded"
    /\ pool' = [pool EXCEPT !.phase = "fanout"]
    /\ UNCHANGED <<dbVars, orchVars, workerVars, observerVars, calc, detectVars,
                   session_scope, refresh, summaries, client, web, gym, published, timeline>>

\* a thread of the executor is free and takes the next queued task
PoolTake ==
    /\ pool.phase = "fanout"
    /\ pool.taken < pool.n
    /\ PoolRunning < MaxWorkers(pool.n)
    /\ pool' = [pool EXCEPT !.taken = @ + 1, !.processed[pool.taken + 1] = @ + 1]
    /\ UNCHANGED <<dbVars, orchVars, workerVars, observerVars, calc, detectVars,
                   session_scope, refresh, summaries, client, web, gym, published, timeline>>

\* a running _process_user_bookings returns or raises
PoolFinish ==
    /\ pool.phase = "fanout"
    /\ PoolRunning > 0
    /\ pool' = [pool EXCEPT !.finished = @ + 1]
    /\ UNCHANGED <<dbVars, orchVars, workerVars, observerVars, calc, detectVars,
                   session_scope, refresh, summaries, client, web, gym, published, timeline>>

\* as_completed has yielded every future and the executor has shut down
PoolReturn ==
    /\ pool.phase = "fanout"
    /\ pool.finished = pool.n
    /\ pool' = [pool EXCEPT !.phase = "returned"]
    /\ UNCHANGED <<dbVars, orchVars, workerVars, observerVars, calc, detectVars,
                   session_scope, refresh, summaries, client, web, gym, published, timeline>>

NextPool ==
    \/ PoolSubmit
    \/ PoolTake
    \/ PoolFinish
    \/ PoolReturn

\* threads are scheduled and a task ends: its loops are bounded
SpecPool == InitPool /\ [][NextPool]_vars /\ WF_vars(NextPool)

\* ------------------------------------------------------------- SpecRefresh
\* refresh_sessions_for_box for the gym ThisBox: booking b belongs to user
\* ((b - 1) % NumUsers) + 1
CredentialProfiles ==
    { [wodbuster_email |-> None,    wodbuster_password |-> None],
      [wodbuster_email |-> "email", wodbuster_password |-> None],
      [wodbuster_email |-> "email", wodbuster_password |-> "password"] }

InitRefresh ==
    /\ users \in [Users -> UserProfiles]
    /\ \E active \in [BookingIds -> BOOLEAN] :
          bookings = [b \in BookingIds |->
                         NewBooking(((b - 1) % NumUsers) + 1, b, active[b])]
    /\ booking_logs = EmptySeqs(BookingIds)
    /\ today = RunDay
    /\ OrchIdle
    /\ WorkersIdle
    /\ ObserverIdle
    /\ CalcIdle
    /\ DetectIdle
    /\ session_scope = "app_context"
    /\ timeline = NoTimeline
    /\ published = <<>>
    /\ GymIdle
    /\ WebIdle
    /\ ClientIdle
    /\ SummariesIdle
    /\ PoolIdle
    /\ \E credentials \in [Users -> CredentialProfiles] :
          refresh = [NoRefresh EXCEPT
                        !.phase = "start",
                        !.wodbuster_email = [u \in Users |-> credentials[u].wodbuster_email],
                        !.wodbuster_password = [u \in Users |-> credentials[u].wodbuster_password],
                        !.before = [u \in Users |-> users[u].wodbuster_cookie]]

\* User.query.filter(box_id, wodbuster_email not NULL).join(Booking)
\*     .filter(is_active).distinct()
RefreshUsers ==
    { u \in Users :
        /\ users[u].box_id = ThisBox
        /\ refresh.wodbuster_email[u] # None
        /\ \E b \in BookingIds : bookings[b].user_id = u /\ bookings[b].is_active }

\* what can raise inside the try block of one user
RefreshFaults == {"none", "client", "LoginError", "commit"}

\* "if wodbuster_password and user.wodbuster_email"
HasCredentials(u) ==
    refresh.wodbuster_password[u] # None /\ refresh.wodbuster_email[u] # None

\* the client and store calls made for one user
RefreshCalls(has_credentials, fault) ==
    IF fault = "client" \/ ~has_credentials THEN <<>>
    ELSE IF fault = "LoginError" THEN <<"login">>
    ELSE <<"login", "get_cookies", "set_wodbuster_cookies", "commit">>

\* how the iteration of one user ends
RefreshOutcome(has_credentials, fault) ==
    CASE fault = "client" -> "error"
      [] ~has_credentials -> "no_credentials"
      [] fault = "LoginError" -> "login_failed"
      [] fault = "commit" -> "error"
      [] OTHER -> "refreshed"

\* a pass that would store whatever cookies the client holds after a failed
\* login
StoresAfterFailedLogin(outcome) == outcome \in {"refreshed", "login_failed"}

\* the new cookies are in the database: login, set_wodbuster_cookies and
\* commit all went through
Stores(outcome) == outcome = "refreshed"

\* a loop whose except clauses would re-raise
ContinuesUnlessRaised(outcome) == outcome \in {"refreshed", "no_credentials"}

\* both except clauses log and fall through to the next user
Continues(outcome) == TRUE

\* the query; without users the pass returns at once
RefreshSelect ==
    /\ refresh.phase = "start"
    /\ \E order \in Orders(RefreshUsers) :
          refresh' = [refresh EXCEPT
                         !.selected = order,
                         !.phase = IF order = <<>> THEN "returned" ELSE "loop"]
    /\ UNCHANGED <<dbVars, orchVars, workerVars, observerVars, calc, detectVars,
                   session_scope, pool, summaries, client, web, gym, published, timeline>>

\* one iteration of "for user in users", and the return after the last one
RefreshUser ==
    /\ refresh.phase = "loop"
    /\ \E fault \in RefreshFaults :
          LET u == refresh.selected[Len(refresh.events) + 1]
              has_credentials == HasCredentials(u)
              outcome == RefreshOutcome(has_credentials, fault)
              event == [user |-> u, outcome |-> outcome,
                        calls |-> RefreshCalls(has_credentials, fault)]
              last == Len(refresh.events) + 1 = Len(refresh.selected)
          IN  /\ has_credentials \/ fault \in {"none", "client"}
              /\ users' = IF Stores(outcome) THEN SetWodbusterCookies(u, FreshTokens)
                          ELSE users
              /\ refresh' = [refresh EXCEPT
                                !.events = Append(@, event),
                                !.phase = IF ~Continues(outcome) THEN "raised"
                                          ELSE IF last THEN "returned" ELSE @]
    /\ UNCHANGED <<bookings, booking_logs, orchVars, workerVars, observerVars, calc,
                   detectVars, session_scope, pool, summaries, client, web, gym, published, timeline>>

NextRefresh ==
    \/ RefreshSelect
    \/ RefreshUser

SpecRefresh == InitRefresh /\ [][NextRefresh]_vars

\* -------------------------------------------------------------- SpecClient
\* One WodBusterClient and the calls made on it, the upstream answering each
\* call in any way it can.
InitClient ==
    /\ users = [u \in Users |-> [box_id |-> OtherBox, wodbuster_cookie |-> None]]
    /\ bookings = [b \in BookingIds |-> NewBooking(1, b, FALSE)]
    /\ booking_logs = EmptySeqs(BookingIds)
    /\ today = RunDay
    /\ OrchIdle
    /\ WorkersIdle
    /\ ObserverIdle
    /\ CalcIdle
    /\ DetectIdle
    /\ session_scope = "app_context"
    /\ timeline = NoTimeline
    /\ published = <<>>
    /\ GymIdle
    /\ WebIdle
    /\ PoolIdle
    /\ RefreshIdle
    /\ SummariesIdle
    /\ \E flaresolverr \in BOOLEAN : client = [NewClient EXCEPT !.flaresolverr = flaresolverr]

\* ---- book_class
\* the words of an upstream error text, in the case the upstream sent them
Numbers == {"2"}
Words == {"Completa", "llena", "Penalizado", "minutos", "segundos", "otro"}
Tokens == Words \cup Numbers

RECURSIVE SeqsUpTo(_, _)
SeqsUpTo(S, n) ==
    IF n = 0 THEN {<<>>}
    ELSE LET shorter == SeqsUpTo(S, n - 1)
         IN  shorter \cup {Append(t, x) : t \in {q \in shorter : Len(q) = n - 1}, x \in S}

ErrorTexts == SeqsUpTo(Tokens, MaxTextLen)

\* str.lower()
Lower(word) ==
    CASE word = "Completa" -> "completa"
      [] word = "Penalizado" -> "penalizado"
      [] OTHER -> word

\* "phrase in text": the text has a word the phrase is part of
Stem(word) ==
    CASE word = "completa" -> "completa"
      [] word = "llena" -> "llena"
      [] word = "penalizado" -> "penaliz"
      [] word = "minutos" -> "minuto"
      [] word = "segundos" -> "segundo"
      [] OTHER -> None

Contains(text, phrase) == \E i \in 1..Len(text) : Stem(text[i]) = phrase

\* int(wait_match.group(1))
IntOf(number) == IF number = "2" THEN 2 ELSE 0

\* a conversion that would take every number as seconds
WaitTimeAsWritten(number, unit) == IntOf(number)

\* "if 'minuto' in wait_match.group(2): wait_time *= 60"
WaitTime(number, unit) ==
    IF Stem(unit) = "minuto" THEN IntOf(number) * 60 ELSE IntOf(number)

\* re.search(r'(\d+)\s*(minuto|segundo)', text): the places where a number is
\* followed by a unit
WaitMatches(text) ==
    { i \in 1..(Len(text) - 1) :
        text[i] \in Numbers /\ Stem(text[i + 1]) \in {"minuto", "segundo"} }

\* RateLimitError.__init__(message, retry_after=60)
DefaultRetryAfter == 60

\* the exception book_class raises for the ErrorMsg of an unsuccessful answer
ClassifyError(error_msg) ==
    LET text == [i \in 1..Len(error_msg) |-> Lower(error_msg[i])]
    IN  IF Contains(text, "completa") \/ Contains(text, "llena")
        THEN [kind |-> "raised", exception |-> "ClassFullError", retry_after |-> None]
        ELSE IF Contains(text, "penaliz")
        THEN IF WaitMatches(text) # {}
             THEN LET i == CHOOSE m \in WaitMatches(text) :
                               \A k \in WaitMatches(text) : m <= k
                  IN  [kind |-> "raised", exception |-> "RateLimitError",
                       retry_after |-> WaitTime(text[i], text[i + 1])]
             ELSE [kind |-> "raised", exception |-> "RateLimitError",
                   retry_after |-> DefaultRetryAfter]
        ELSE [kind |-> "raised", exception |-> "BookingError", retry_after |-> None]

\* a client whose methods would not look at _logged_in
SendsUnguarded(logged_in) == TRUE

\* "if not self._logged_in: raise SessionExpiredError('Not logged in')": the
\* request goes upstream only past this guard
Sends(logged_in) == logged_in

\* what the upstream can answer to Calendario_Inscribir.ashx
BookAnswers ==
    {[answer |-> a, error_msg |-> <<>>] : a \in {"transport_error", "not_json", "booked"}}
        \cup {[answer |-> "refused", error_msg |-> client.error_msg]}

BookClassOutcome(logged_in, answer) ==
    CASE ~logged_in ->
            [kind |-> "raised", exception |-> "SessionExpiredError", retry_after |-> None]
      [] logged_in /\ answer.answer = "booked" ->
            [kind |-> "returned", exception |-> None, retry_after |-> None]
      [] logged_in /\ answer.answer = "refused" -> ClassifyError(answer.error_msg)
      [] OTHER ->
            [kind |-> "raised", exception |-> "BookingError", retry_after |-> None]

\* client.book_class(class_id)
BookClass ==
    /\ \E answer \in BookAnswers :
          client' = [client EXCEPT !.last =
                        [op |-> "book_class", logged_in |-> client.logged_in,
                         sent |-> Sends(client.logged_in), answer |-> answer,
                         outcome |-> BookClassOutcome(Sends(client.logged_in), answer)]]
    /\ UNCHANGED <<dbVars, orchVars, workerVars, observerVars, calc, detectVars,
                   session_scope, pool, refresh, summaries, web, gym, published, timeline>>

\* ---- login
\* what one login path can meet: the session is established; the answer page
\* has one of the known error indicators; a request fails; the login page has
\* no form tokens; no session comes out of it and no known indicator is shown
LoginAnswers == {"established", "error_page", "transport", "no_tokens", "unverified"}

\* the result of one path: True, or the LoginError it raises
LoginPath(answer) ==
    CASE answer = "established" ->
            [kind |-> "returned", exception |-> None, message |-> None]
      [] answer = "error_page" ->
            [kind |-> "raised", exception |-> "LoginError",
             message |-> "Invalid email or password"]
      [] answer = "transport" ->
            [kind |-> "raised", exception |-> "LoginError", message |-> "Login failed: "]
      [] answer = "no_tokens" ->
            [kind |-> "raised", exception |-> "LoginError",
             message |-> "Could not extract form tokens from login page"]
      [] OTHER ->
            [kind |-> "raised", exception |-> "LoginError",
             message |-> "Login failed - could not establish session"]

\* login(): the FlareSolverr path when configured, and the cloudscraper path
\* when that is not configured or raised
DecidingAnswer(flaresolverr, fs_answer, cs_answer) ==
    IF flaresolverr /\ fs_answer = "established" THEN fs_answer ELSE cs_answer

\* the cookies a login leaves in the jar
FreshCookies == [n \in CookieNames |-> "fresh"]

\* client.login(email, password)
Login ==
    /\ \E fs_answer \in LoginAnswers, cs_answer \in LoginAnswers :
          LET answer == DecidingAnswer(client.flaresolverr, fs_answer, cs_answer)
              outcome == LoginPath(answer)
          IN  /\ client.flaresolverr \/ fs_answer = cs_answer
              /\ client' = [client EXCEPT
                    !.logged_in = @ \/ outcome.kind = "returned",
                    !.verified = @ \/ answer = "established",
                    !.cookies = IF outcome.kind = "returned" THEN FreshCookies ELSE @,
                    !.last = [op |-> "login", logged_in |-> client.logged_in,
                              answer |-> answer, outcome |-> outcome]]
    /\ UNCHANGED <<dbVars, orchVars, workerVars, observerVars, calc, detectVars,
                   session_scope, pool, refresh, summaries, web, gym, published, timeline>>

\* ---- restore_session
\* the dicts get_wodbuster_cookies() can hand over
CookieDicts == [CookieNames -> {None, "stored"}]

\* a restore that would put the cookies in the jar only once they verified
UpdateIfVerified(jar, cookies, verified) ==
    IF verified THEN [n \in CookieNames |-> IF cookies[n] # None THEN cookies[n] ELSE jar[n]]
    ELSE jar

\* self.session.cookies.update(cookies), which comes before the verification
Update(jar, cookies, verified) ==
    [n \in CookieNames |-> IF cookies[n] # None THEN cookies[n] ELSE jar[n]]

\* _verify_login: no cookies, no session; a .WBAuth cookie is taken as proof;
\* otherwise the protected page decides
VerifyLogin(jar, protected_page) ==
    IF \A n \in CookieNames : jar[n] = None THEN FALSE
    ELSE IF jar[".WBAuth"] # None THEN TRUE
    ELSE protected_page

\* client.restore_session(cookies)
RestoreSession ==
    /\ \E cookies \in CookieDicts, protected_page \in BOOLEAN :
          LET given == \E n \in CookieNames : cookies[n] # None
              verified == given /\ VerifyLogin(Update(client.cookies, cookies, TRUE),
                                               protected_page)
          IN  client' = [client EXCEPT
                  !.cookies = IF given THEN Update(@, cookies, verified) ELSE @,
                  !.logged_in = @ \/ verified,
                  !.verified = @ \/ verified,
                  !.last = [op |-> "restore_session", logged_in |-> client.logged_in,
                            given |-> cookies, before |-> client.cookies,
                            outcome |-> [kind |-> "returned", value |-> verified]]]
    /\ UNCHANGED <<dbVars, orchVars, workerVars, observerVars, calc, detectVars,
                   session_scope, pool, refresh, summaries, web, gym, published, timeline>>

\* ---- get_classes
\* what the upstream can answer to LoadClass.ashx: a failed request; a body
\* that is no JSON (an empty one too); a JSON null, number, string or array;
\* a JSON object, of which the keys the code reads are told
ClassBodies ==
    {[body |-> b, EsCorrecto |-> "absent", Mantenimiento |-> FALSE, Data |-> "absent", Datos |-> "absent"] :
        b \in {"transport_error", "empty", "not_json", "null", "number", "string", "array"}}
    \cup
    {[body |-> "object", EsCorrecto |-> e, Mantenimiento |-> m, Data |-> d, Datos |-> o] :
        e \in {"absent", "true", "false"}, m \in BOOLEAN,
        d \in {"absent", "null", "slots"}, o \in {"absent", "items"}}

Classes(format) == <<[format |-> format]>>

GetClassesOutcome(logged_in, answer) ==
    CASE ~logged_in ->
            [kind |-> "raised", exception |-> "SessionExpiredError", classes |-> <<>>]
      [] logged_in /\ answer.body = "transport_error" ->
            [kind |-> "raised", exception |-> "RequestException", classes |-> <<>>]
      [] logged_in /\ answer.body \in {"empty", "not_json"} ->
            [kind |-> "returned", exception |-> None, classes |-> <<>>]
      [] logged_in /\ answer.body \in {"null", "number"} ->
            \* "'EsCorrecto' in data"
            [kind |-> "raised", exception |-> "TypeError", classes |-> <<>>]
      [] logged_in /\ answer.body \in {"string", "array"} ->
            \* "data.get('Mantenimiento', False)"
            [kind |-> "raised", exception |-> "AttributeError", classes |-> <<>>]
      [] OTHER ->
            IF answer.EsCorrecto = "false" \/ answer.Mantenimiento
            THEN [kind |-> "returned", exception |-> None, classes |-> <<>>]
            ELSE IF answer.Data = "slots"
            THEN [kind |-> "returned", exception |-> None, classes |-> Classes("Data")]
            ELSE IF answer.Data = "null"
            THEN \* "for time_slot in data.get('Data', [])"
                 [kind |-> "raised", exception |-> "TypeError", classes |-> <<>>]
            ELSE IF answer.Datos = "items"
            THEN [kind |-> "returned", exception |-> None, classes |-> Classes("Datos")]
            ELSE [kind |-> "returned", exception |-> None, classes |-> <<>>]

\* client.get_classes(date)
GetClasses ==
    /\ \E answer \in ClassBodies :
          client' = [client EXCEPT !.last =
                        [op |-> "get_classes", logged_in |-> client.logged_in,
                         sent |-> Sends(client.logged_in), answer |-> answer,
                         outcome |-> GetClassesOutcome(Sends(client.logged_in), answer)]]
    /\ UNCHANGED <<dbVars, orchVars, workerVars, observerVars, calc, detectVars,
                   session_scope, pool, refresh, summaries, web, gym, published, timeline>>

\* ---- cancel_booking
\* what the upstream can answer to Calendario_Borrar.ashx
CancelAnswers == {"transport_error", "not_json", "cancelled", "refused"}

CancelBookingOutcome(logged_in, answer) ==
    CASE ~logged_in -> [kind |-> "raised", exception |-> "SessionExpiredError"]
      [] logged_in /\ answer = "cancelled" -> [kind |-> "returned", exception |-> None]
      [] OTHER -> [kind |-> "raised", exception |-> "BookingError"]

\* client.cancel_booking(class_id, booking_id)
CancelBooking ==
    /\ \E answer \in CancelAnswers :
          client' = [client EXCEPT !.last =
                        [op |-> "cancel_booking", logged_in |-> client.logged_in,
                         sent |-> Sends(client.logged_in), answer |-> answer,
                         outcome |-> CancelBookingOutcome(Sends(client.logged_in), answer)]]
    /\ UNCHANGED <<dbVars, orchVars, workerVars, observerVars, calc, detectVars,
                   session_scope, pool, refresh, summaries, web, gym, published, timeline>>

\* ---- get_account_info
\* what the upstream can answer to schedule.aspx: a failed request, a page of
\* fewer than 100 characters, a page
AccountAnswers == {"transport_error", "empty", "page"}

\* every failure past the guard is returned in the dict, under 'error'
GetAccountInfoOutcome(logged_in, answer) ==
    CASE ~logged_in ->
            [kind |-> "raised", exception |-> "SessionExpiredError", error |-> FALSE]
      [] OTHER ->
            [kind |-> "returned", exception |-> None, error |-> answer # "page"]

\* client.get_account_info()
GetAccountInfo ==
    /\ \E answer \in AccountAnswers :
          client' = [client EXCEPT !.last =
                        [op |-> "get_account_info", logged_in |-> client.logged_in,
                         sent |-> Sends(client.logged_in), answer |-> answer,
                         outcome |-> GetAccountInfoOutcome(Sends(client.logged_in), answer)]]
    /\ UNCHANGED <<dbVars, orchVars, workerVars, observerVars, calc, detectVars,
                   session_scope, pool, refresh, summaries, web, gym, published, timeline>>

NextClient ==
    \/ Login
    \/ RestoreSession
    \/ GetClasses
    \/ BookClass
    \/ CancelBooking
    \/ GetAccountInfo

SpecClient == InitClient /\ [][NextClient]_vars

\* ----------------------------------------------------------------- SpecBook
\* book_class on a client whose upstream refuses bookings with one error text,
\* for every text of up to MaxTextLen words
InitBook ==
    /\ users = [u \in Users |-> [box_id |-> OtherBox, wodbuster_cookie |-> None]]
    /\ bookings = [b \in BookingIds |-> NewBooking(1, b, FALSE)]
    /\ booking_logs = EmptySeqs(BookingIds)
    /\ today = RunDay
    /\ OrchIdle
    /\ WorkersIdle
    /\ ObserverIdle
    /\ CalcIdle
    /\ DetectIdle
    /\ session_scope = "app_context"
    /\ timeline = NoTimeline
    /\ published = <<>>
    /\ GymIdle
    /\ WebIdle
    /\ PoolIdle
    /\ RefreshIdle
    /\ SummariesIdle
    /\ \E error_msg \in ErrorTexts : client = [NewClient EXCEPT !.error_msg = error_msg]

NextBook ==
    \/ Login
    \/ BookClass

SpecBook == InitBook /\ [][NextBook]_vars

\* ------------------------------------------------------------------ SpecWeb
\* The routes /new, /toggle/<id> and /delete/<id> on the bookings table, for
\* NumRequests concurrent /new requests and any toggle and delete requests.
\* A slot stands for one (day_of_week, time, class_type).
Slots == {"Monday 07:00 CrossFit", "Monday 18:30 CrossFit"}
Requests == 1..NumRequests

\* the logged-in users the requests come from (current_user)
CurrentUsers == {"user_a", "user_b"}

\* the ids the table can have given out
RowIds == 1..NumRequests

IdleRequest == [pc |-> "idle", user |-> None, slot |-> None, status |-> 0]

InitWeb ==
    /\ users = [u \in Users |-> [box_id |-> ThisBox, wodbuster_cookie |-> None]]
    /\ bookings = [b \in BookingIds |-> NewBooking(1, b, FALSE)]
    /\ booking_logs = EmptySeqs(BookingIds)
    /\ today = RunDay
    /\ OrchIdle
    /\ WorkersIdle
    /\ ObserverIdle
    /\ CalcIdle
    /\ DetectIdle
    /\ session_scope = "app_context"
    /\ timeline = NoTimeline
    /\ published = <<>>
    /\ GymIdle
    /\ PoolIdle
    /\ RefreshIdle
    /\ SummariesIdle
    /\ ClientIdle
    /\ web = [NoWeb EXCEPT !.requests = [r \in Requests |-> IdleRequest]]

\* Booking.query.filter_by(user_id, day_of_week, time, class_type)
SameSlot(rows, u, slot) == {b \in rows : b.user_id = u /\ b.slot = slot}

\* a table without the constraint
NoUniqueConstraint(rows, u, slot) == FALSE

\* UniqueConstraint('user_id', 'day_of_week', 'time', 'class_type'): the
\* INSERT raises IntegrityError
UniqueViolation(rows, u, slot) == SameSlot(rows, u, slot) # {}

\* the primary key of a new row
NextId(rows) ==
    IF rows = {} THEN 1
    ELSE 1 + (CHOOSE m \in {b.id : b \in rows} : \A b \in rows : b.id <= m)

\* POST /new up to the duplicate check: "existing = ....first()"; with an
\* existing booking the form is rendered again
NewBookingCheck(r) ==
    /\ web.requests[r].pc = "idle"
    /\ \E u \in CurrentUsers, slot \in Slots :
          web' = [web EXCEPT !.requests[r] =
                     IF SameSlot(web.rows, u, slot) # {}
                     THEN [pc |-> "done", user |-> u, slot |-> slot, status |-> 200]
                     ELSE [pc |-> "checked", user |-> u, slot |-> slot, status |-> 0]]
    /\ UNCHANGED <<dbVars, orchVars, workerVars, observerVars, calc, detectVars,
                   session_scope, pool, refresh, summaries, client, gym, published, timeline>>

\* POST /new from "booking = Booking(...)": add and commit, then the redirect;
\* an IntegrityError is not caught and the request ends in a 500
NewBookingCommit(r) ==
    LET request == web.requests[r]
        violation == UniqueViolation(web.rows, request.user, request.slot)
        row == [id |-> NextId(web.rows), user_id |-> request.user,
                slot |-> request.slot, is_active |-> TRUE]
    IN  /\ request.pc = "checked"
        /\ web' = [web EXCEPT
              !.rows = IF violation THEN @ ELSE @ \cup {row},
              !.requests[r] = [request EXCEPT !.pc = "done",
                                  !.status = IF violation THEN 500 ELSE 302]]
        /\ UNCHANGED <<dbVars, orchVars, workerVars, observerVars, calc, detectVars,
                       session_scope, pool, refresh, summaries, client, gym, published, timeline>>

\* a query for the id alone
AnyBooking(rows, u, id) == {b \in rows : b.id = id}

\* Booking.query.filter_by(id=booking_id, user_id=current_user.id)
OwnBooking(rows, u, id) == {b \in rows : b.id = id /\ b.user_id = u}

\* POST /toggle/<booking_id>
ToggleBooking ==
    /\ \E u \in CurrentUsers, id \in RowIds :
          LET found == OwnBooking(web.rows, u, id)
          IN  IF found = {}
              THEN web' = [web EXCEPT
                      !.last = [op |-> "toggle", user |-> u, id |-> id, status |-> 404]]
              ELSE web' = [web EXCEPT
                      !.rows = (@ \ found) \cup
                               {[b EXCEPT !.is_active = ~b.is_active] : b \in found},
                      !.last = [op |-> "toggle", user |-> u, id |-> id, status |-> 302]]
    /\ UNCHANGED <<dbVars, orchVars, workerVars, observerVars, calc, detectVars,
                   session_scope, pool, refresh, summaries, client, gym, published, timeline>>

\* POST /delete/<booking_id>
DeleteBooking ==
    /\ \E u \in CurrentUsers, id \in RowIds :
          LET found == OwnBooking(web.rows, u, id)
          IN  IF found = {}
              THEN web' = [web EXCEPT
                      !.last = [op |-> "delete", user |-> u, id |-> id, status |-> 404]]
              ELSE web' = [web EXCEPT
                      !.rows = @ \ found,
                      !.last = [op |-> "delete", user |-> u, id |-> id, status |-> 302]]
    /\ UNCHANGED <<dbVars, orchVars, workerVars, observerVars, calc, detectVars,
                   session_scope, pool, refresh, summaries, client, gym, published, timeline>>

NextWeb ==
    \/ \E r \in Requests : NewBookingCheck(r)
    \/ \E r \in Requests : NewBookingCommit(r)
    \/ ToggleBooking
    \/ DeleteBooking

SpecWeb == InitWeb /\ [][NextWeb]_vars

\* ------------------------------------------------------------------ SpecGym
\* The routes /connect and /detect-box-schedule, for users that join either
\* gym and an upstream that reports any opening time, or none.
InitGym ==
    /\ users = [u \in Users |-> [box_id |-> None, wodbuster_cookie |-> None]]
    /\ bookings = [b \in BookingIds |-> NewBooking(1, b, FALSE)]
    /\ booking_logs = EmptySeqs(BookingIds)
    /\ today = RunDay
    /\ OrchIdle
    /\ WorkersIdle
    /\ ObserverIdle
    /\ CalcIdle
    /\ DetectIdle
    /\ session_scope = "app_context"
    /\ timeline = NoTimeline
    /\ published = <<>>
    /\ PoolIdle
    /\ RefreshIdle
    /\ SummariesIdle
    /\ ClientIdle
    /\ WebIdle
    /\ GymIdle

\* the day, hour and minute at which the upstream can say reservations open
DetectableTimes ==
    { DefaultOpening,
      [booking_open_day |-> 0, booking_open_hour |-> 12, booking_open_minute |-> 0],
      [booking_open_day |-> 2, booking_open_hour |-> 20, booking_open_minute |-> 30] }

\* what client.get_booking_open_time() can return: None (the empty set), or
\* one opening time
BookingInfos == {{}} \cup {{t} : t \in DetectableTimes}

Detected(booking_info) == CHOOSE t \in booking_info : TRUE

\* "is_default_schedule": Sunday 13:00
IsDefaultSchedule(box) ==
    /\ box.booking_open_day = DaysPerWeek - 1
    /\ box.booking_open_hour = 13
    /\ box.booking_open_minute = 0

\* POST /connect of user u for the gym g
ConnectWodbuster(u, g) ==
    /\ \E login_ok \in BOOLEAN, booking_info \in BookingInfos, commit_ok \in BOOLEAN :
          LET detects == IsDefaultSchedule(boxes[g]) /\ booking_info # {}
          IN  IF login_ok /\ commit_ok
              THEN /\ users' = [users EXCEPT ![u] =
                                   [box_id |-> g, wodbuster_cookie |-> FreshTokens]]
                   /\ boxes' = [boxes EXCEPT ![g] = IF detects THEN Detected(booking_info) ELSE @]
                   /\ gym' = [gym EXCEPT ![g] =
                                 [exists |-> TRUE, detected |-> @.detected \/ detects]]
              ELSE \* LoginError, or an exception: a flash message, nothing is stored
                   /\ booking_info = {}
                   /\ login_ok \/ commit_ok
                   /\ UNCHANGED <<users, boxes, gym>>
    /\ UNCHANGED <<bookings, booking_logs, orchVars, workerVars, observerVars, calc,
                   scan, clock, job_queue, runs, session_scope, pool, refresh,
                   summaries, client, web, published, timeline>>

\* GET /detect-box-schedule of user u
DetectBoxSchedule(u) ==
    /\ \E restore_ok \in BOOLEAN, booking_info \in BookingInfos, commit_ok \in BOOLEAN :
          LET g == users[u].box_id
              detects == /\ g # None
                         /\ Truthy(users[u].wodbuster_cookie)
                         /\ restore_ok
                         /\ booking_info # {}
                         /\ commit_ok
          IN  /\ g # None
              /\ boxes' = [boxes EXCEPT ![g] = IF detects THEN Detected(booking_info) ELSE @]
              /\ gym' = [gym EXCEPT ![g].detected = @ \/ detects]
    /\ UNCHANGED <<dbVars, orchVars, workerVars, observerVars, calc,
                   scan, clock, job_queue, runs, session_scope, pool, refresh,
                   summaries, client, web, published, timeline>>

NextGym ==
    \/ \E u \in Users, g \in Boxes : ConnectWodbuster(u, g)
    \/ \E u \in Users : DetectBoxSchedule(u)

SpecGym == InitGym /\ [][NextGym]_vars

\* ----------------------------------------------------------------- SpecFind
\* The retry loop of one booking with client.find_class computed from what
\* the upstream publishes for the target date.
InitFind ==
    /\ users = [u \in Users |-> [box_id |-> ThisBox, wodbuster_cookie |-> StoredTokens]]
    /\ bookings = [b \in BookingIds |-> NewBooking(1, b, b = 1)]
    /\ obj = [loaded |-> NewBooking(1, 1, TRUE), current |-> NewBooking(1, 1, TRUE)]
    /\ booking_logs = EmptySeqs(BookingIds)
    /\ today = RunDay
    /\ opc = "fanout"
    /\ bookings_by_user = [u \in Users |-> IF u = 1 THEN <<1>> ELSE <<>>]
    /\ collected = {}
    /\ results_by_user = <<>>
    /\ notified = <<>>
    /\ pc = [u \in Users |-> IF u = 1 THEN "bookings" ELSE "none"]
    /\ session = [u \in Users |-> IF u = 1 THEN "restored" ELSE "none"]
    /\ calls = [u \in Users |-> IF u = 1 THEN <<RestoreEvent(TRUE)>> ELSE <<>>]
    /\ results = EmptySeqs(Users)
    /\ idx = [u \in Users |-> 0]
    /\ attempt = [u \in Users |-> 0]
    /\ trace = <<>>
    /\ book_calls = 0
    /\ delays = 0
    /\ CalcIdle
    /\ DetectIdle
    /\ session_scope \in SessionScopes
    /\ timeline = NoTimeline
    /\ PoolIdle
    /\ RefreshIdle
    /\ SummariesIdle
    /\ ClientIdle
    /\ WebIdle
    /\ GymIdle
    /\ published = <<>>

\* booking.time and booking.class_type of the observed booking
BookingTime == "07:00"
BookingClassType == "WOD"

\* the classes the gym can publish for a day: the booked one and another
PublishedClasses ==
    { [time |-> "07:00:00", name |-> "WOD Open"],
      [time |-> "08:00:00", name |-> "Yoga"] }

\* what get_classes gives find_class: the list of the day's classes, or an
\* exception (session expired, network, an unreadable body)
Publications ==
    {[raises |-> FALSE, classes |-> c] : c \in SeqsUpTo(PublishedClasses, MaxClasses)}
       \cup {[raises |-> TRUE, classes |-> <<>>]}

\* s.replace(':', '')[:4]
TimeKey(time) ==
    CASE time = "07:00" -> "0700"
      [] time = "07:00:00" -> "0700"
      [] time = "08:00:00" -> "0800"
      [] OTHER -> time

\* "class_type.lower() in cls_name", cls_name the lowered name
NameHas(name, class_type) ==
    CASE class_type = "WOD" -> name \in {"WOD Open"}
      [] OTHER -> FALSE

Matches(cls, time_str, class_type) ==
    /\ TimeKey(cls.time) = TimeKey(time_str)
    /\ NameHas(cls.name, class_type)

\* client.find_class: the first class of the day at the time and of the type,
\* None when the loop finds none
FindClass(publication, time_str, class_type) ==
    CASE publication.raises -> "Exception"
      [] \E i \in 1..Len(publication.classes) :
            Matches(publication.classes[i], time_str, class_type) -> "cls"
      [] OTHER -> "None"

\* an attempt of the observed worker against the upstream
UpstreamAttempt ==
    \E publication \in Publications, k \in BookResults \cup {NotCalled},
       commit_ok \in BOOLEAN :
       LET f == FindClass(publication, BookingTime, BookingClassType)
       IN  /\ AttemptStep(1, f, k, commit_ok)
           /\ trace' = Append(trace, Raised(f, k))
           /\ book_calls' = book_calls + (IF k # NotCalled THEN 1 ELSE 0)
           /\ delays' = delays + (IF Sleeps(attempt[1] + 1, Raised(f, k)) THEN 1 ELSE 0)
           /\ obj' = [obj EXCEPT !.current =
                        LET n == attempt[1] + 1
                            e == Raised(f, k)
                            o == AfterAttempt(@, n, e, StrOf(e))
                        IN  IF LoopEnds(n, e) THEN [o EXCEPT !.last_attempt = {today}] ELSE o]
           /\ published' = Append(published, publication)

NextFind == UpstreamAttempt

SpecFind == InitFind /\ [][NextFind]_vars

\* --------------------------------------------------------------- SpecLegacy
\* _process_single_booking, the single-booking processor: every attempt of
\* its retry loop creates a client and establishes the session itself.
InitLegacy ==
    /\ users \in [Users -> {[box_id |-> ThisBox, wodbuster_cookie |-> c] :
                               c \in {StoredTokens, None}}]
    /\ bookings = [b \in BookingIds |-> NewBooking(1, b, b = 1)]
    /\ obj = [loaded |-> NewBooking(1, 1, TRUE), current |-> NewBooking(1, 1, TRUE)]
    /\ booking_logs = EmptySeqs(BookingIds)
    /\ today = RunDay
    /\ opc = "fanout"
    /\ bookings_by_user = [u \in Users |-> IF u = 1 THEN <<1>> ELSE <<>>]
    /\ collected = {}
    /\ results_by_user = <<>>
    /\ notified = <<>>
    /\ pc = [u \in Users |-> IF u = 1 THEN "bookings" ELSE "none"]
    /\ session = [u \in Users |-> "none"]
    /\ calls = EmptySeqs(Users)
    /\ results = EmptySeqs(Users)
    /\ idx = [u \in Users |-> 0]
    /\ attempt = [u \in Users |-> 0]
    /\ trace = <<>>
    /\ book_calls = 0
    /\ delays = 0
    /\ CalcIdle
    /\ DetectIdle
    /\ session_scope \in SessionScopes
    /\ timeline = NoTimeline
    /\ PoolIdle
    /\ RefreshIdle
    /\ SummariesIdle
    /\ ClientIdle
    /\ WebIdle
    /\ GymIdle
    /\ published = <<>>

\* how the session of an attempt's new client comes about: from the stored
\* cookies, from a re-login, or not at all
LegacySession(cookies, verified, wodbuster_password, login_ok, commit_ok) ==
    CASE Truthy(cookies) /\ verified -> "restored"
      [] wodbuster_password = None -> "no_credentials"
      [] ~login_ok -> "login_failed"
      [] ~commit_ok -> "commit_failed"
      [] OTHER -> "relogged"

\* the client calls of one attempt, in order
LegacyCalls(cookies, how, f, k) ==
    (IF Truthy(cookies) THEN <<RestoreEvent(how = "restored")>> ELSE <<>>)
    \o (CASE how = "login_failed" -> <<"login=LoginError">>
          [] how \in {"commit_failed", "relogged"} -> <<"login">>
          [] OTHER -> <<>>)
    \o (IF how \in {"restored", "relogged"} THEN <<"find_class">> ELSE <<>>)
    \o (IF how \in {"restored", "relogged"} /\ k # NotCalled
        THEN <<"book_class">> ELSE <<>>)

\* the exception the try body of one attempt ends with; SessionExpiredError
\* is taken by the retrying clause, which does what "except Exception" does
LegacyRaised(how, f, k) ==
    CASE how \in {"no_credentials", "login_failed"} -> "SessionExpiredError"
      [] how = "commit_failed" -> "Exception"
      [] OTHER -> Raised(f, k)

\* one iteration of the retry loop of _process_single_booking; with the last
\* iteration come the log row, the commit and the result record
LegacyAttempt ==
    \E verified \in BOOLEAN, wodbuster_password \in {None, "password"},
       login_ok \in BOOLEAN, relogin_commit_ok \in BOOLEAN,
       f \in FindResults, k \in BookResults \cup {NotCalled}, commit_ok \in BOOLEAN :
       LET u == 1
           b == CurrentBooking(u)
           n == attempt[u] + 1
           cookies == users[u].wodbuster_cookie
           how == LegacySession(cookies, verified, wodbuster_password, login_ok,
                                relogin_commit_ok)
           established == how \in {"restored", "relogged"}
           e == LegacyRaised(how, f, k)
           text == StrOf(e)
           row == [AfterAttempt(bookings[b], n, e, text) EXCEPT !.last_attempt = {today}]
           target_date == TargetDate(bookings[b].day_of_week, today)
           message == MessageAfter(n, e, text)
       IN  /\ pc[u] = "bookings"
           \* inputs that are not looked at take one value
           /\ Truthy(cookies) \/ verified
           /\ how = "restored" => (wodbuster_password = None /\ login_ok /\ relogin_commit_ok)
           /\ how = "no_credentials" => (login_ok /\ relogin_commit_ok)
           /\ how = "login_failed" => relogin_commit_ok
           /\ established => ((f = "cls") <=> (k # NotCalled))
           /\ ~established => (f = "None" /\ k = NotCalled)
           /\ ~LoopEnds(n, e) => commit_ok
           /\ calls' = [calls EXCEPT ![u] = @ \o LegacyCalls(cookies, how, f, k)]
           /\ session' = [session EXCEPT ![u] = how]
           /\ users' = IF how = "relogged" THEN SetWodbusterCookies(u, FreshTokens) ELSE users
           /\ trace' = Append(trace, e)
           /\ book_calls' = book_calls + (IF established /\ k # NotCalled THEN 1 ELSE 0)
           /\ delays' = delays + (IF Sleeps(n, e) THEN 1 ELSE 0)
           /\ obj' = [obj EXCEPT !.current =
                        LET o == AfterAttempt(@, n, e, text)
                        IN  IF LoopEnds(n, e) THEN [o EXCEPT !.last_attempt = {today}] ELSE o]
           /\ IF ~LoopEnds(n, e)
              THEN /\ attempt' = [attempt EXCEPT ![u] = n]
                   /\ UNCHANGED <<bookings, booking_logs, results, pc, idx>>
              ELSE IF commit_ok
              THEN /\ bookings' = CommitRow(b, row)
                   /\ booking_logs' = [booking_logs EXCEPT ![b] = Append(@,
                          [ booking_id |-> b, status |-> row.status,
                            message |-> message, target_date |-> target_date ])]
                   /\ IF DetachedAfterCommit
                      THEN Crash(u)
                      ELSE /\ results' = [results EXCEPT ![u] = Append(@,
                                  [ user_id |-> u, booking |-> b, status |-> row.status,
                                    message |-> message, target_date |-> target_date ])]
                           /\ idx' = [idx EXCEPT ![u] = @ + 1]
                           /\ attempt' = [attempt EXCEPT ![u] = 0]
                           /\ pc' = [pc EXCEPT ![u] = "done"]
              ELSE /\ Crash(u)
                   /\ UNCHANGED <<bookings, booking_logs>>
           /\ UNCHANGED <<orchVars, calc, detectVars, session_scope, pool, refresh,
                          summaries, client, web, gym, published, timeline>>

NextLegacy == LegacyAttempt

SpecLegacy == InitLegacy /\ [][NextLegacy]_vars

\* --------------------------------------------------------------- SpecToggle
\* A run while the owners of the bookings use the toggle route; the trace
\* holds the last attempt: its booking, whether book_class was called, and
\* whether the booking was active then.
RecordedAttempt(u) ==
    /\ \E f \in FindResults, k \in BookResults \cup {NotCalled}, commit_ok \in BOOLEAN :
          /\ AttemptStep(u, f, k, commit_ok)
          /\ trace' = << [ booking |-> CurrentBooking(u), book |-> k # NotCalled,
                           is_active |-> bookings[CurrentBooking(u)].is_active ] >>
    /\ UNCHANGED <<book_calls, delays, obj, published>>

\* POST /bookings/<id>/toggle by the owner of booking b, at any time of the run
ToggleDuringRun(b) ==
    /\ opc # "done"
    /\ bookings' = [bookings EXCEPT ![b].is_active = ~@]
    /\ UNCHANGED <<users, booking_logs, orchVars, workerVars, observerVars, calc,
                   detectVars, session_scope, pool, refresh, summaries, client, web,
                   gym, published, timeline>>

NextToggle ==
    \/ LoadNothing
    \/ LoadAndSubmit
    \/ \E u \in Users : WorkerStart(u)
    \/ \E u \in Users : Relogin(u)
    \/ \E u \in Users : RecordedAttempt(u)
    \/ \E u \in Users : Collect(u)
    \/ Notify
    \/ \E b \in BookingIds : ToggleDuringRun(b)

SpecToggle == Init /\ [][NextToggle]_vars

\* -------------------------------------------------------------- SpecOverlap
\* The refresh pass of a gym, triggered REFRESH_LOOKAHEAD minutes before the
\* opening, against the fan-out of the gym's run at the opening. Seconds are
\* counted from the trigger of the pass; both run in threads of their own
\* jobs.
InitOverlap ==
    /\ users = [u \in Users |-> [box_id |-> ThisBox, wodbuster_cookie |-> StoredTokens]]
    /\ bookings = [b \in BookingIds |-> NewBooking(1, b, TRUE)]
    /\ booking_logs = EmptySeqs(BookingIds)
    /\ today = RunDay
    /\ OrchIdle
    /\ WorkersIdle
    /\ ObserverIdle
    /\ CalcIdle
    /\ DetectIdle
    /\ session_scope = "app_context"
    /\ PoolIdle
    /\ RefreshIdle
    /\ SummariesIdle
    /\ ClientIdle
    /\ WebIdle
    /\ GymIdle
    /\ published = <<>>
    /\ \E n \in 1..NumRefreshUsers :
          timeline = [n |-> n, visited |-> 0, elapsed |-> 0, fanout |-> {}]

\* the opening, in seconds after the trigger of the refresh pass
FanoutSecond == REFRESH_LOOKAHEAD * SecondsPerMinute

\* how long client.login can take, the upstream answering at once or slowly
LoginSeconds == {0, MaxLoginSeconds}

\* one iteration of "for user in users": the login, the commit, and
\* time.sleep(2)
Elapsed(elapsed, login_seconds) == elapsed + login_seconds + REFRESH_PAUSE

\* the pass visits its next user, at second timeline.elapsed
RefreshVisit ==
    /\ timeline.visited < timeline.n
    /\ timeline.elapsed < FanoutSecond \/ timeline.fanout # {}
    /\ \E login_seconds \in LoginSeconds :
          timeline' = [timeline EXCEPT !.visited = @ + 1,
                                       !.elapsed = Elapsed(@, login_seconds)]
    /\ UNCHANGED <<dbVars, orchVars, workerVars, observerVars, calc, detectVars,
                   session_scope, pool, refresh, summaries, client, web, gym, published>>

\* the run's wait is over at the opening and the workers are submitted; by
\* then the pass has ended, or is at a user
FanoutBegins ==
    /\ timeline.fanout = {}
    /\ timeline.visited = timeline.n \/ timeline.elapsed >= FanoutSecond
    /\ timeline' = [timeline EXCEPT !.fanout =
                       {[visited |-> timeline.visited, elapsed |-> timeline.elapsed]}]
    /\ UNCHANGED <<dbVars, orchVars, workerVars, observerVars, calc, detectVars,
                   session_scope, pool, refresh, summaries, client, web, gym, published>>

NextOverlap ==
    \/ RefreshVisit
    \/ FanoutBegins

SpecOverlap == InitOverlap /\ [][NextOverlap]_vars

\* ================================================================ properties
\* ------------------------------------------------- the retry loop (SpecRetry)
\* the outcomes the retry policy retries
RetryableKinds == {"ClassNotFoundError", "BookingError", "RateLimitError", "Exception"}

\* the retry loop of the observed booking is over
LoopOver == pc[1] \in {"done", "crashed"}

\* C1: the retry loop makes at most MAX_RETRY_ATTEMPTS attempts; a success on
\* attempt k is the last attempt, so k attempts are made; while every attempt
\* fails with a retried outcome the loop goes on until exactly
\* MAX_RETRY_ATTEMPTS attempts are made, and then stops.
C1_RetryAttempts ==
    /\ Len(trace) <= MAX_RETRY_ATTEMPTS
    /\ \A i \in 1..Len(trace) : trace[i] = "none" => (i = Len(trace) /\ LoopOver)
    /\ (\A i \in 1..Len(trace) : trace[i] \in RetryableKinds)
          => (LoopOver <=> Len(trace) = MAX_RETRY_ATTEMPTS)

\* every attempt failed, each with another retried outcome
C1_Witness ==
    /\ pc[1] = "done"
    /\ trace = <<"ClassNotFoundError", "RateLimitError", "Exception">>
    /\ results[1][1].status = "failed"

\* C2, as stated: a ClassFull attempt is the last one, leaves the booking in
\* "waiting", and in the whole run of the booking book was called exactly once
\* and no retry delay was taken.
C2_BookCalledOnce ==
    \A i \in 1..Len(trace) : trace[i] = "ClassFullError" =>
        /\ i = Len(trace) /\ LoopOver
        /\ pc[1] = "done" => results[1][1].status = "waiting"
        /\ book_calls = 1
        /\ delays = 0

\* C2, amended: a ClassFull attempt is the last one and leaves the booking in
\* "waiting"; no book call and no delay follow it, so that after attempt i at
\* most i book calls and exactly i - 1 delays were made; when the first
\* attempt is the ClassFull one, book was called exactly once and no delay
\* was taken.
C2_ClassFullEndsLoop ==
    \A i \in 1..Len(trace) : trace[i] = "ClassFullError" =>
        /\ i = Len(trace) /\ LoopOver
        /\ booking_logs[1] # <<>> => booking_logs[1][1].status = "waiting"
        /\ pc[1] = "done" => results[1][1].status = "waiting"
        /\ book_calls <= i
        /\ delays = i - 1
        /\ i = 1 => (book_calls = 1 /\ delays = 0)

\* the class fills up on the second attempt, after a retried failure
C2_Witness ==
    /\ pc[1] = "done"
    /\ trace = <<"BookingError", "ClassFullError">>
    /\ results[1][1].status = "waiting"
    /\ book_calls = 2 /\ delays = 1

Range(seq) == {seq[i] : i \in 1..Len(seq)}

\* the place of call e in the worker's call order, 0 when it was not made
Pos(seq, e) == IF e \in Range(seq) THEN CHOOSE i \in 1..Len(seq) : seq[i] = e ELSE 0

TerminalStatuses == {"success", "waiting", "failed"}

SessionMessages ==
    {"Session expired and re-login failed", "Session expired and no credentials stored"}

SessionFailed(u) == session[u] \in {"login_failed", "no_credentials"}

\* C4: when a worker has returned, every booking it reports a result for has
\* exactly one BookingLog row of this run, the bookings failed for a session
\* that could not be re-established included.
C4_OneLogPerProcessedBooking ==
    \A u \in Users : pc[u] = "done" =>
        \A i \in 1..Len(results[u]) :
            Len(booking_logs[results[u][i].booking]) = 1

\* C5: when the stored session is invalid and the re-login fails, or there is
\* no stored credential, the worker returns one result per booking of the user
\* in the run, each "failed" with a session/login message.
C5_ReauthFailureFailsAll ==
    \A u \in Users : SessionFailed(u) =>
        /\ pc[u] = "done"
        /\ Len(results[u]) = Len(bookings_by_user[u])
        /\ \A i \in 1..Len(results[u]) :
              /\ results[u][i].booking = bookings_by_user[u][i]
              /\ results[u][i].status = "failed"
              /\ results[u][i].message.text \in SessionMessages
        /\ u \in collected =>
              (u \in DOMAIN results_by_user /\ results_by_user[u] = results[u])

\* the re-login of a user with two bookings in the run fails
C5_Witness ==
    \E u \in Users :
        /\ session[u] = "login_failed"
        /\ Len(bookings_by_user[u]) = 2
        /\ Len(results[u]) = 2
        /\ u \in collected

\* C6: whatever happens in the other workers, the result list a worker
\* returned is in the aggregate as returned, stays there until it is handed to
\* the notifier, and the run ends only when every worker has ended; the
\* bookings of a worker that got its session and returned have then all been
\* given a terminal status, the one of their log row.
C6_WorkerIsolation ==
    \A u \in Users :
        /\ (u \in collected /\ pc[u] = "done" /\ results[u] # <<>>) =>
              (u \in DOMAIN results_by_user /\ results_by_user[u] = results[u])
        /\ opc = "done" =>
              /\ u \in UserIds => pc[u] \in {"done", "crashed"}
              /\ (pc[u] = "done" /\ results[u] # <<>>) =>
                    (u \in DOMAIN notified /\ notified[u] = results[u])
              /\ (pc[u] = "done" /\ ~SessionFailed(u)) =>
                    /\ Len(results[u]) = Len(bookings_by_user[u])
                    /\ \A i \in 1..Len(results[u]) :
                          /\ results[u][i].booking = bookings_by_user[u][i]
                          /\ results[u][i].status \in TerminalStatuses
                          /\ Len(booking_logs[results[u][i].booking]) = 1
                          /\ booking_logs[results[u][i].booking][1].status =
                                results[u][i].status

\* one worker raised, one failed to log in or booked; the other's result is
\* what the notifier receives
C6_Witness ==
    /\ opc = "done"
    /\ \E v \in Users, u \in Users :
          /\ pc[v] = "crashed"
          /\ u \in DOMAIN notified
          /\ notified[u][1].status = "success"

\* C7: once the future of a worker that raised has been collected, the
\* aggregate holds for that user a "failed" record for each of the user's
\* bookings that was not processed.
C7_EscapeBecomesFailedRecords ==
    \A u \in collected : pc[u] = "crashed" =>
        /\ u \in DOMAIN results_by_user
        /\ \A i \in 1..Len(bookings_by_user[u]) :
              booking_logs[bookings_by_user[u][i]] = <<>> =>
                 \E j \in 1..Len(results_by_user[u]) :
                    /\ results_by_user[u][j].booking = bookings_by_user[u][i]
                    /\ results_by_user[u][j].status = "failed"

\* C8: in a worker whose restore_session failed, login comes before the first
\* find_class (book_class is only called after a find_class of the same
\* attempt), and the cookies of the login are stored, in the user's row,
\* between the two.
C8_ReloginBeforeBooking ==
    \A u \in Users : RestoreEvent(FALSE) \in Range(calls[u]) =>
        /\ "find_class" \in Range(calls[u]) =>
              /\ Pos(calls[u], "login") \in 1..(Pos(calls[u], "find_class") - 1)
              /\ Pos(calls[u], "set_wodbuster_cookies") \in
                    (Pos(calls[u], "login") + 1)..(Pos(calls[u], "find_class") - 1)
        /\ "set_wodbuster_cookies" \in Range(calls[u]) =>
              users[u].wodbuster_cookie = FreshTokens

\* restore failed, the re-login succeeded and a booking was attempted
C8_Witness ==
    \E u \in Users :
        /\ calls[u] = <<RestoreEvent(FALSE), "login", "set_wodbuster_cookies", "find_class">>
        /\ users[u].wodbuster_cookie = FreshTokens

\* C9: the first call of a worker is restore_session with the stored cookies
\* (every user of the run has some), so it precedes any login; when it
\* returned True the worker never calls login.
C9_RestoreFirst ==
    \A u \in Users :
        /\ pc[u] \notin {"none", "queued"} =>
              /\ calls[u] # <<>>
              /\ calls[u][1] \in {RestoreEvent(TRUE), RestoreEvent(FALSE)}
        /\ RestoreEvent(TRUE) \in Range(calls[u]) => "login" \notin Range(calls[u])
        /\ "login" \in Range(calls[u]) =>
              Pos(calls[u], RestoreEvent(FALSE)) \in 1..(Pos(calls[u], "login") - 1)

\* both cases in one run: a restored session that went on to book, and a
\* restore that failed and was followed by a login
C9_Witness ==
    \E u \in Users, v \in Users :
        /\ calls[u] = <<RestoreEvent(TRUE), "find_class">>
        /\ pc[u] = "done"
        /\ Pos(calls[v], "login") = 2

\* ------------------------------------------- the Booking object (SpecRetry)
\* C11: once the retry loop is over the Booking object has, against the row
\* that was loaded, success_count + 1 and the same fail_count when its status
\* is "success", fail_count + 1 and the same success_count when it is
\* "failed", and both counters as loaded when it is "waiting"; while the loop
\* is going on no counter has changed.
C11_CounterDeltas ==
    LET was == obj.loaded
        now == obj.current
        ds == now.success_count - was.success_count
        df == now.fail_count - was.fail_count
    IN  /\ ~LoopOver => (ds = 0 /\ df = 0)
        /\ LoopOver =>
              /\ now.status \in TerminalStatuses
              /\ now.status = "success" => (ds = 1 /\ df = 0)
              /\ now.status = "failed" => (ds = 0 /\ df = 1)
              /\ now.status = "waiting" => (ds = 0 /\ df = 0)

\* a booking that had succeeded and failed before fails after three attempts
C11_Witness ==
    /\ LoopOver
    /\ Len(trace) = MAX_RETRY_ATTEMPTS
    /\ obj.loaded.fail_count = 1 /\ obj.loaded.success_count = 1
    /\ obj.current.status = "failed"
    /\ obj.current.fail_count = 2 /\ obj.current.success_count = 1

\* C12: when all MAX_RETRY_ATTEMPTS attempts failed with retried errors, the
\* booking's status is "failed" and its last_error is the error text of the
\* last attempt with the "(after 3 attempts)" annotation.
C12_LastErrorAnnotated ==
    (/\ LoopOver
     /\ Len(trace) = MAX_RETRY_ATTEMPTS
     /\ \A i \in 1..Len(trace) : trace[i] \in RetryableKinds)
    => /\ obj.current.status = "failed"
       /\ obj.current.last_error =
             Text(StrOf(trace[MAX_RETRY_ATTEMPTS]), MAX_RETRY_ATTEMPTS)

\* ------------------------------------------------- the stored rows (Spec)
\* C13: once a worker has ended, every booking of the run that has a
\* BookingLog row has a stored Booking row with the status of that log row
\* and with the run's attempt timestamp.
C13_RowPersisted ==
    \A u \in Users : pc[u] \in {"done", "crashed"} =>
        \A i \in 1..Len(bookings_by_user[u]) :
            LET b == bookings_by_user[u][i]
            IN  booking_logs[b] # <<>> =>
                   /\ bookings[b].status = booking_logs[b][1].status
                   /\ bookings[b].last_attempt = {today}

\* --------------------------------------------- the window detector (SpecWeek)
\* the opening of a gym as a minute of the week, and within its day
OpeningTick(g) ==
    boxes[g].booking_open_day * MinutesPerDay
      + boxes[g].booking_open_hour * MinutesPerHour + boxes[g].booking_open_minute

OpeningMinuteOfDay(g) ==
    boxes[g].booking_open_hour * MinutesPerHour + boxes[g].booking_open_minute

\* the minute of the week k minutes after, or before, minute t
Later(t, k) == (t + k) % (DaysPerWeek * MinutesPerDay)
Earlier(t, k) == (t + DaysPerWeek * MinutesPerDay - k) % (DaysPerWeek * MinutesPerDay)

\* C17: every tick at which a gym's booking trigger fires lies 5 minutes
\* before the gym's opening (day, hour, minute), every tick at which its
\* refresh trigger fires 10 minutes before it, so no trigger fires at any
\* other tick; and an opening whose lookahead crosses an hour boundary within
\* the day is matched by the tick of the hour before.
C17_TriggersOnlyAtLookahead ==
    scan.scanned =>
       \A g \in Boxes :
          /\ \A t \in scan.booking[g] : Later(t, BOOKING_LOOKAHEAD) = OpeningTick(g)
          /\ \A t \in scan.refresh[g] : Later(t, REFRESH_LOOKAHEAD) = OpeningTick(g)
          /\ (boxes[g].booking_open_hour >= 1
                /\ boxes[g].booking_open_minute < BOOKING_LOOKAHEAD)
                => Earlier(OpeningTick(g), BOOKING_LOOKAHEAD) \in scan.booking[g]
          /\ (boxes[g].booking_open_hour >= 1
                /\ boxes[g].booking_open_minute < REFRESH_LOOKAHEAD)
                => Earlier(OpeningTick(g), REFRESH_LOOKAHEAD) \in scan.refresh[g]

\* the gym opens on Monday at 13:02: the tick of 12:57 triggers the booking
\* run, the tick of 12:52 the refresh
C17_Witness ==
    /\ scan.scanned
    /\ boxes[ThisBox] = [booking_open_day |-> 0, booking_open_hour |-> 13,
                         booking_open_minute |-> 2]
    /\ scan.booking[ThisBox] = {12 * MinutesPerHour + 57}
    /\ scan.refresh[ThisBox] = {12 * MinutesPerHour + 52}

\* C18, as stated: for every opening time, the ticks of a week cause exactly
\* one booking trigger, 5 minutes before the opening, and exactly one refresh
\* trigger, 10 minutes before it.
C18_OneTriggerPerOpening ==
    scan.scanned =>
       \A g \in Boxes :
          /\ scan.booking[g] = {Earlier(OpeningTick(g), BOOKING_LOOKAHEAD)}
          /\ scan.refresh[g] = {Earlier(OpeningTick(g), REFRESH_LOOKAHEAD)}

\* C18, amended: an opening at 00:05 or later causes exactly one booking
\* trigger in the week, 5 minutes before it, and an opening at 00:10 or later
\* exactly one refresh trigger, 10 minutes before it; an earlier opening,
\* whose lookahead tick lies before midnight, causes no such trigger.
C18_OneTriggerUnlessAcrossMidnight ==
    scan.scanned =>
       \A g \in Boxes :
          /\ scan.booking[g] =
                IF OpeningMinuteOfDay(g) >= BOOKING_LOOKAHEAD
                THEN {Earlier(OpeningTick(g), BOOKING_LOOKAHEAD)} ELSE {}
          /\ scan.refresh[g] =
                IF OpeningMinuteOfDay(g) >= REFRESH_LOOKAHEAD
                THEN {Earlier(OpeningTick(g), REFRESH_LOOKAHEAD)} ELSE {}

\* the gym opens on Monday at 00:07: one booking trigger at 00:02 and no
\* refresh trigger
C18_Witness ==
    /\ scan.scanned
    /\ boxes[ThisBox] = [booking_open_day |-> 0, booking_open_hour |-> 0,
                         booking_open_minute |-> 7]
    /\ scan.booking[ThisBox] = {2}
    /\ scan.refresh[ThisBox] = {}

\* C16: a user's bookings are processed one after another by that user's
\* worker: while the worker is at a booking, every booking before it in the
\* user's list has its result record, in list order and with a terminal
\* status, and its one log row; the booking in progress and those after it
\* have none, so no two bookings of a user are in progress together.
C16_SequentialPerUser ==
    \A u \in Users :
        (pc[u] \in {"bookings", "done"} /\ session[u] \in {"restored", "relogged"}) =>
            LET list == bookings_by_user[u]
            IN  /\ Len(results[u]) = idx[u]
                /\ pc[u] = "bookings" => idx[u] < Len(list)
                /\ pc[u] = "done" => idx[u] = Len(list) /\ attempt[u] = 0
                /\ \A i \in 1..idx[u] :
                      /\ results[u][i].booking = list[i]
                      /\ results[u][i].status \in TerminalStatuses
                      /\ Len(booking_logs[list[i]]) = 1
                /\ \A j \in (idx[u] + 1)..Len(list) : booking_logs[list[j]] = <<>>

\* the second booking of a user is being retried, the first has ended
C16_Witness ==
    \E u \in Users :
        /\ pc[u] = "bookings"
        /\ Len(bookings_by_user[u]) >= 2
        /\ idx[u] = 1
        /\ attempt[u] >= 1
        /\ Len(results[u]) = 1
        /\ results[u][1].booking = bookings_by_user[u][1]

\* ----------------------------------------------------------- the notifier (Spec)
\* C23 as stated: once every worker has finished, send_booking_summary is
\* called for each user whose worker returned at least one result record,
\* with that user's list.
C23_NotifiedPerUserWithResults ==
    opc = "done" =>
        \A u \in UserIds :
            (pc[u] = "done" /\ results[u] # <<>>) =>
                /\ u \in DOMAIN summaries
                /\ summaries[u].sent
                /\ summaries[u].results = results[u]

\* C23: the notifier runs only after every worker of the run has finished;
\* it is handed one entry per user whose worker returned at least one result
\* record, and calls send_booking_summary for exactly those of them that exist
\* with email_notifications on, once each and with that user's own list.
C23_NotifiedPerEnabledUser ==
    /\ summaries # <<>> => opc = "done"
    /\ opc = "done" =>
          /\ \A u \in UserIds : pc[u] \in {"done", "crashed"}
          /\ DOMAIN summaries = {u \in UserIds : pc[u] = "done" /\ results[u] # <<>>}
          /\ notified = results_by_user
          /\ \A u \in DOMAIN summaries :
                /\ notified[u] = results[u]
                /\ summaries[u].sent <=> summaries[u].lookup = "on"
                /\ summaries[u].sent => summaries[u].results = results[u]
                /\ ~summaries[u].sent => summaries[u].results = <<>>

\* two users with different result lists are both notified, each with its own
C23_Witness ==
    /\ opc = "done"
    /\ \E u, v \in DOMAIN summaries :
          /\ u # v
          /\ summaries[u].sent /\ summaries[v].sent
          /\ summaries[u].results = results[u]
          /\ summaries[v].results = results[v]
          /\ results[u] # results[v]

\* ------------------------------------------- the session refresher (SpecRefresh)
\* C21: for a user with stored credentials the refresher calls login and
\* never restore_session; set_wodbuster_cookies comes after login, and the
\* user's stored cookies differ from those before the pass only if a login
\* of that user succeeded, and are then the new ones.
C21_FreshLoginOnly ==
    /\ \A i \in 1..Len(refresh.events) :
          LET event == refresh.events[i]
          IN  /\ "restore_session" \notin Range(event.calls)
              /\ HasCredentials(event.user) /\ event.outcome # "error" =>
                    event.calls # <<>> /\ event.calls[1] = "login"
              /\ "set_wodbuster_cookies" \in Range(event.calls) =>
                    /\ Pos(event.calls, "login") < Pos(event.calls, "set_wodbuster_cookies")
                    /\ event.outcome \in {"refreshed", "error"}
    /\ \A u \in Users :
          users[u].wodbuster_cookie # refresh.before[u] =>
              /\ users[u].wodbuster_cookie = FreshTokens
              /\ \E i \in 1..Len(refresh.events) :
                    refresh.events[i].user = u /\ refresh.events[i].outcome = "refreshed"

\* one user's login failed and the stored cookies stayed, another user's were
\* replaced
C21_Witness ==
    /\ refresh.phase = "returned"
    /\ \E i, j \in 1..Len(refresh.events) :
          /\ refresh.events[i].outcome = "login_failed"
          /\ users[refresh.events[i].user].wodbuster_cookie = StoredTokens
          /\ refresh.events[j].outcome = "refreshed"
          /\ refresh.before[refresh.events[j].user] = StoredTokens
          /\ users[refresh.events[j].user].wodbuster_cookie = FreshTokens

C24_ErrorTextClassified ==
    (client.last.op = "book_class" /\ client.last.logged_in
        /\ client.last.answer.answer = "refused") =>
        LET text == client.last.answer.error_msg
            outcome == client.last.outcome
            capacity == \E i \in 1..Len(text) : text[i] \in {"Completa", "llena"}
            penalty == \E i \in 1..Len(text) : text[i] = "Penalizado"
            timed == {i \in 1..(Len(text) - 1) :
                         text[i] \in Numbers /\ text[i + 1] \in {"minutos", "segundos"}}
        IN  /\ outcome.kind = "raised"
            /\ capacity => outcome.exception = "ClassFullError"
            /\ ~capacity /\ penalty =>
                  /\ outcome.exception = "RateLimitError"
                  /\ \A i \in timed :
                        (\A k \in timed : i <= k) =>
                            outcome.retry_after =
                                IF text[i + 1] = "minutos" THEN 60 * IntOf(text[i])
                                ELSE IntOf(text[i])
                  /\ timed = {} => outcome.retry_after = DefaultRetryAfter
            /\ ~capacity /\ ~penalty => outcome.exception = "BookingError"

\* a penalty of 2 minutes is reported as 120 seconds
C24_Witness ==
    /\ client.last.op = "book_class"
    /\ client.last.logged_in
    /\ client.last.answer.answer = "refused"
    /\ client.last.answer.error_msg = <<"Penalizado", "2", "minutos">>
    /\ client.last.outcome.exception = "RateLimitError"
    /\ client.last.outcome.retry_after = 120

\* C25 as stated: on a logged-in client get_classes returns an empty list
\* when the body is missing, is no JSON, or is JSON of a shape that is neither
\* the flat list nor the nested time slots; SessionExpiredError comes only
\* from a client that is not logged in.
C25_UnrecognisedBodyGivesEmptyList ==
    client.last.op = "get_classes" =>
        LET answer == client.last.answer
            outcome == client.last.outcome
            unrecognised ==
                \/ answer.body \in {"empty", "not_json", "null", "number", "string", "array"}
                \/ answer.body = "object" /\ answer.Data # "slots" /\ answer.Datos # "items"
        IN  /\ (client.last.logged_in /\ unrecognised) =>
                  outcome.kind = "returned" /\ outcome.classes = <<>>
            /\ outcome.exception = "SessionExpiredError" => ~client.last.logged_in

\* C26 as stated: the failure login reports for rejected credentials is of
\* another exception type than the one it reports for a failed request.
C26_InvalidCredentialsTellable ==
    (client.last.op = "login" /\ client.last.answer = "error_page") =>
        /\ client.last.outcome.kind = "raised"
        /\ client.last.outcome.exception # LoginPath("transport").exception

\* C27 as stated: a restore_session that returns False leaves the dict it was
\* given and the client's own cookies and _logged_in as they were.
C27_FailedRestoreMutatesNothing ==
    (client.last.op = "restore_session" /\ ~client.last.outcome.value) =>
        /\ client.cookies = client.last.before
        /\ client.logged_in = client.last.logged_in

\* ------------------------------------------------- the booking routes (SpecWeb)
\* no user has two bookings for one (day_of_week, time, class_type)
C28_Unique ==
    \A b1 \in web.rows, b2 \in web.rows :
        (b1.user_id = b2.user_id /\ b1.slot = b2.slot) => b1 = b2

\* a /new request that ends without creating its booking, because one for the
\* slot exists, leaves the table as it was
C28_DuplicateChangesNothing ==
    \A r \in Requests :
        (web'.requests[r] # web.requests[r] /\ web'.requests[r].status \in {200, 500}) =>
            web'.rows = web.rows

\* C28: after any booking creations, concurrent ones of one user included, no
\* user has two Booking rows with the same (day_of_week, time, class_type),
\* and an attempt to create a duplicate leaves the existing bookings unchanged.
C28_UniquePerUser == []C28_Unique /\ [][C28_DuplicateChangesNothing]_vars

\* two requests of one user for one slot both passed the duplicate check: one
\* created the booking, the other was stopped by the constraint
C28_Witness ==
    \E r1 \in Requests, r2 \in Requests :
        /\ web.requests[r1].status = 302
        /\ web.requests[r2].status = 500
        /\ web.requests[r1].user = web.requests[r2].user
        /\ web.requests[r1].slot = web.requests[r2].slot
        /\ SameSlot(web.rows, web.requests[r1].user, web.requests[r1].slot) # {}

\* a booking leaves the table or changes only by a toggle or delete request
\* of its owner for its id, and a toggle or delete request for an id that is
\* another user's booking is answered 404 and changes nothing
C29_OwnerOnlyStep ==
    /\ \A b \in web.rows :
          b \notin web'.rows =>
              /\ web'.last.op \in {"toggle", "delete"}
              /\ web'.last.user = b.user_id
              /\ web'.last.id = b.id
              /\ web'.last.status = 302
    /\ (web'.last # web.last
          /\ \E b \in web.rows : b.id = web'.last.id /\ b.user_id # web'.last.user) =>
              /\ web'.last.status = 404
              /\ web'.rows = web.rows

\* C29: a toggle or delete request changes a booking only when the booking
\* belongs to the requesting user; for another user's booking id it is
\* answered 404 and the booking stays, with the same is_active.
C29_OwnerOnly == [][C29_OwnerOnlyStep]_vars

\* another user's toggle or delete of an existing booking was answered 404
C29_Witness ==
    /\ web.last.op \in {"toggle", "delete"}
    /\ web.last.status = 404
    /\ \E b \in web.rows : b.id = web.last.id /\ b.user_id # web.last.user /\ b.is_active

\* ------------------------------------------- the guard of the client (SpecClient)
\* the calls that ask the upstream for the schedule, a booking, a
\* cancellation or the account
GuardedOps == {"get_classes", "book_class", "cancel_booking", "get_account_info"}

\* C37: a client sends schedule, book, cancel and account requests upstream
\* only after a login or restore_session of that client has passed
\* verification; while neither has, the four calls raise SessionExpiredError
\* and send nothing.
C37_VerifiedBeforeRequests ==
    /\ client.logged_in => client.verified
    /\ client.last.op \in GuardedOps =>
          /\ client.last.sent => client.verified
          /\ ~client.verified =>
                /\ ~client.last.sent
                /\ client.last.outcome.kind = "raised"
                /\ client.last.outcome.exception = "SessionExpiredError"

\* a cancellation sent by a client whose restored cookies passed verification
C37_Witness ==
    /\ client.verified
    /\ client.cookies[".WBAuth"] = "stored"
    /\ client.last.op = "cancel_booking"
    /\ client.last.sent
    /\ client.last.outcome.kind = "returned"

\* ------------------------------------- the refresh pass and the fan-out (SpecOverlap)
\* C40: the refresh pass of a gym has ended for every user before the gym's
\* fan-out begins, for any number of users, so that the refresher and a
\* booking worker never write the same user's stored session concurrently.
C40_RefreshEndsBeforeFanout ==
    \A f \in timeline.fanout :
        /\ f.visited = timeline.n
        /\ f.elapsed <= FanoutSecond

\* ------------------------------------- a run and the booking routes (SpecToggle)
\* C39: no book_class call is made for a booking that is inactive at the time
\* of the call; a booking deactivated after the run loaded its bookings and
\* before the worker reaches it is not attempted.
C39_NoBookCallWhenInactive ==
    \A i \in 1..Len(trace) : trace[i].book => trace[i].is_active

\* ------------------------------------------ the three records of a run (Spec)
\* C38: for every booking handled in a run, the status in the result record
\* handed to the notifier, the status stored on the Booking and the status of
\* the BookingLog row written for the run are the same value.
C38_StatusesAgree ==
    opc = "done" =>
       \A u \in DOMAIN notified : \A i \in 1..Len(notified[u]) :
          LET r == notified[u][i]
          IN  /\ bookings[r.booking].status = r.status
              /\ Len(booking_logs[r.booking]) = 1
              /\ booking_logs[r.booking][1].status = r.status

\* ------------------------------------------------ the frame of a run (Spec)
\* booking b is active, of a user of the gym of the run, who has a stored
\* session; a run changes none of the three, but for the session a re-login
\* replaces
Eligible(b) ==
    /\ bookings[b].is_active
    /\ users[bookings[b].user_id].box_id = ThisBox
    /\ users[bookings[b].user_id].wodbuster_cookie # None

\* C36: a run for a gym attempts and modifies only the bookings that were
\* active, of a user of the gym and of a user with a stored session when it
\* loaded them; every other booking is not given to a worker, stays as it was
\* and gets neither a log row nor a result record.
C36_OnlyLoadedBookingsTouched ==
    /\ \A u \in Users : \A i \in 1..Len(bookings_by_user[u]) :
          /\ Eligible(bookings_by_user[u][i])
          /\ bookings[bookings_by_user[u][i]].user_id = u
    /\ \A b \in BookingIds : ~Eligible(b) =>
          /\ bookings[b] = NewBooking(bookings[b].user_id, b, bookings[b].is_active)
          /\ booking_logs[b] = <<>>
          /\ \A u \in Users : \A i \in 1..Len(results[u]) : results[u][i].booking # b

\* the run is over: a booking of the gym was processed, an active booking of
\* a member of another gym was not
C36_Witness ==
    /\ opc = "done"
    /\ \E b1, b2 \in BookingIds :
          /\ Eligible(b1) /\ booking_logs[b1] # <<>>
          /\ bookings[b2].is_active
          /\ users[bookings[b2].user_id] = [box_id |-> OtherBox, wodbuster_cookie |-> StoredTokens]
          /\ booking_logs[b2] = <<>>

\* ------------------------------------------- refresh before booking (SpecWeek)
\* C35: every booking trigger of a gym, 5 minutes before an opening, is
\* preceded in the same window by the gym's refresh trigger, 10 minutes before
\* the opening: no run is started for a window whose refresh did not fire.
C35_RefreshPrecedesBooking ==
    scan.scanned =>
       \A g \in Boxes : \A t \in scan.booking[g] :
          Earlier(t, REFRESH_LOOKAHEAD - BOOKING_LOOKAHEAD) \in scan.refresh[g]

\* ------------------------------------------------- the retry delay (SpecRetry)
\* C33: the retry delay is taken only between consecutive attempts: a booking
\* that used n attempts took n - 1 delays, none of them after a success, a
\* ClassFull, a NoClassesAvailable or the final failed attempt; while the loop
\* goes on, every attempt made so far was followed by one delay.
C33_DelaysBetweenAttempts ==
    /\ LoopOver => delays = Len(trace) - 1
    /\ ~LoopOver => delays = Len(trace)
    /\ \A i \in 1..Len(trace) :
          trace[i] \in {"none", "ClassFullError", "NoClassesAvailableError"}
             => delays = i - 1

\* three attempts, each failed with a retried error: two delays
C33_Witness ==
    /\ pc[1] = "done"
    /\ trace = <<"BookingError", "RateLimitError", "ClassNotFoundError">>
    /\ delays = 2
    /\ results[1][1].status = "failed"

\* ------------------------------------------- termination of the loop (SpecRetryLive)
\* while the loop runs fewer than MAX_RETRY_ATTEMPTS attempts were made; when
\* it is over at most MAX_RETRY_ATTEMPTS were, and the Booking object, the log
\* row and the result record carry one of the terminal statuses
C32_Terminal ==
    /\ Len(trace) <= MAX_RETRY_ATTEMPTS
    /\ ~LoopOver => attempt[1] = Len(trace) /\ Len(trace) < MAX_RETRY_ATTEMPTS
    /\ LoopOver => obj.current.status \in TerminalStatuses
    /\ \A i \in 1..Len(booking_logs[1]) : booking_logs[1][i].status \in TerminalStatuses
    /\ \A i \in 1..Len(results[1]) : results[1][i].status \in TerminalStatuses

\* C32: the state machine of a booking ends, for every sequence of upstream
\* outcomes, after at most MAX_RETRY_ATTEMPTS attempts in one of the statuses
\* success, waiting, failed; a processed booking is not left pending or in
\* an attempt.
C32_Terminates == []C32_Terminal /\ <>LoopOver

\* a booking loaded as pending that failed with an unexpected error each time
C32_Witness ==
    /\ pc[1] = "done"
    /\ trace = <<"Exception", "Exception", "Exception">>
    /\ obj.loaded.status = "pending"
    /\ obj.current.status = "failed"

\* ------------------------------------- the single-booking processor (SpecLegacy)
\* C34: a login failure is not retried: once client.login has failed for a
\* user in a run, that was the last client call for the user in the run, so
\* login is not called again and no find_class or book_class call follows.
C34_LoginFailureNotRetried ==
    \A u \in Users : \A i \in 1..Len(calls[u]) :
        calls[u][i] = "login=LoginError" => i = Len(calls[u])

\* ------------------------------------------- the loop and the upstream (SpecFind)
\* C31: an attempt for which the upstream published no classes at all ends
\* with NoClassesAvailable, not ClassNotFound, and is the only attempt of the
\* booking, which ends "failed" without a retry delay.
C31_EmptyDayFailsAtOnce ==
    \A i \in 1..Len(published) :
        (~published[i].raises /\ published[i].classes = <<>>) =>
            /\ trace[i] = "NoClassesAvailableError"
            /\ i = Len(published) /\ LoopOver
            /\ delays = i - 1
            /\ pc[1] = "done" => results[1][1].status = "failed"

\* ------------------------------------------------------------ the gyms (SpecGym)
\* once auto-detection has overwritten the schedule of a gym, no connection
\* or detection request changes it
C30_DetectedScheduleKept ==
    \A g \in Boxes : gym[g].detected => boxes'[g] = boxes[g]

\* C30 as stated: a gym's opening schedule is overwritten by auto-detection at
\* most once; every later connection and detection request leaves it as it is.
C30_OverwrittenAtMostOnce == [][C30_DetectedScheduleKept]_vars

\* ------------------------------------------------------ the executor (SpecPool)
\* C15: at most min(number of users, 50) user tasks run at a time; while the
\* ceiling is reached the users behind it stay queued; each user's task is run
\* at most once, and exactly once by the time the run returns, which it
\* eventually does.
C15_PoolSafe ==
    /\ PoolRunning <= Min(pool.n, MAX_PARALLEL_USERS)
    /\ \A u \in PoolUsers : pool.processed[u] <= 1
    /\ \A u \in PoolUsers : pool.processed[u] = 1 => u <= pool.n
    /\ pool.phase = "returned" =>
          /\ PoolRunning = 0
          /\ \A u \in 1..pool.n : pool.processed[u] = 1

C15_BoundedPool == []C15_PoolSafe /\ <>(pool.phase = "returned")

\* more users than the ceiling: 50 tasks run and the others are queued
C15_Witness ==
    /\ pool.phase = "fanout"
    /\ pool.n > MAX_PARALLEL_USERS
    /\ PoolRunning = MAX_PARALLEL_USERS
    /\ \E u \in 1..pool.n : pool.processed[u] = 0

\* ---------------------------------------------- the detector job (SpecDetect)
\* C14: the fan-out of a run the detector started begins at or after the
\* gym's opening instant, whose minute is the run's target_time: no user task
\* is submitted, so no find_class or book_class is called, before it.
C14_NoFanoutBeforeOpening ==
    \A g \in Boxes :
        /\ runs[g].phase \in {"waiting", "fanout"} => runs[g].target_time = OpeningTick(g)
        /\ runs[g].phase \in {"idle", "queued", "waiting"} => runs[g].started_at = NoTick
        /\ runs[g].phase = "fanout" => clock >= OpeningTick(g)
        /\ runs[g].started_at # NoTick => runs[g].started_at >= OpeningTick(g)

\* triggered 5 minutes ahead, the run has waited and fans out in the opening
\* minute
C14_Witness ==
    \E g \in Boxes :
        /\ runs[g].phase = "fanout"
        /\ runs[g].triggered_at = OpeningTick(g) - BOOKING_LOOKAHEAD
        /\ runs[g].started_at = OpeningTick(g)
        /\ clock = OpeningTick(g)

\* C19: of two gyms with the same opening time, each one's run is called at
\* the tick that triggered it and its fan-out starts in the opening minute,
\* having waited for it.
C19_SameOpeningIndependent ==
    \A g \in Boxes, h \in Boxes :
        (g # h /\ boxes[g] = boxes[h] /\ runs[g].started_at # NoTick) =>
            /\ runs[g].called_at = runs[g].triggered_at
            /\ runs[g].started_at = OpeningTick(g)

\* C20: every gym is triggered at the tick 5 minutes before its opening, once
\* that tick has passed, whatever run is in progress then.
C20_DetectedAtOwnTick ==
    \A g \in Boxes :
        \A t \in (FirstTick + 1)..clock :
            g \in BoxesOpening(t) => runs[g].triggered_at = t

\* ------------------------------------------------- the target date (SpecDate)
\* C10: the computed target date is 1 to 7 days after today, falls on the
\* booking's day_of_week, is never today, and is 7 days ahead when today is
\* that weekday.
C10_TargetDate ==
    calc.target # 0 =>
        /\ calc.target - calc.today \in 1..7
        /\ Weekday(calc.target) = calc.day_of_week
        /\ calc.target # calc.today
        /\ calc.day_of_week = Weekday(calc.today) => calc.target = calc.today + 7

\* today is the booking's weekday
C10_Witness ==
    /\ calc.day_of_week = Weekday(calc.today)
    /\ calc.target = calc.today + 7
====
